---- MODULE Spec2Model ----
(***************************************************************************)
(* A model of the icps interpreter: scanner (src/src/scanner.rs), parser   *)
(* (src/src/parser.rs), environment (src/src/environment.rs) and           *)
(* tree-walking evaluator (src/src/interpreter.rs), driven by run          *)
(* (src/src/icps.rs).                                                      *)
(*                                                                         *)
(* Representation.  Characters are one-character strings and every text    *)
(* (source, identifier name, string literal, printed line) is a sequence   *)
(* of characters.  An f64 is a decimal m / 10^e kept normalised (e = 0 or  *)
(* m not a multiple of 10), so that literals, +, -, * and comparisons are  *)
(* exact; only `/` is cut to DivDigits fractional digits.  An Option is a  *)
(* sequence of length 0 or 1.  Source locations (Loc) are not modelled: an *)
(* Error is its message and the name it cites.                             *)
(***************************************************************************)
EXTENDS Integers, Sequences, FiniteSets, TLC

VARIABLES
    pc,       \* position of the caller: "ready"/"done" around interpret,
              \* "scan"/"scanned" around scan, "parse"/"parsed" around parse,
              \* "prompt" between run calls, "aborted" once a call has not returned,
              \* "env" between calls on an Environment,
              \* "tokens"/"compared"/"consumed" around Token::eq and consume
    source,   \* the source text handed to scan / run
    scanned,  \* Result<Vec<LocToken>, Error> of Scanner::scan
    parsed,   \* Result<Vec<Stmt>, Error> of Parser::parse
    env,      \* Interpreter.env: the scope chain, outermost scope first
    output,   \* the lines println! has written to stdout
    trace,    \* history of the last interpret call (statement and operator events);
              \* in SpecEnv the last call on the Environment and what it returned
    result,   \* Result<(), Error> of the last interpret / run call
    runs      \* number of run calls made on this Interpreter

vars == <<pc, source, scanned, parsed, env, output, trace, result, runs>>

----------------------------------------------------------------------------
(* Bounds of the model. *)

MaxNum == 2
MaxBlockLen == 3
MaxSteps == 6
DivDigits == 2

\* characters of a source text given to scan alone
MaxSourceLen == 4

\* tokens (before Eof) of a sequence given to parse alone
MaxTokens == 4

\* tokens (before Eof) of an expression given to parse alone
MaxExprTokens == 5

\* calls of run on one Interpreter
MaxScopes == 3

MaxBlankLines == 2

MaxRuns == 4

----------------------------------------------------------------------------
(* Numbers: f64 as normalised decimals. *)

Radix == 10

RECURSIVE Pow10(_)
Pow10(k) == IF k = 0 THEN 1 ELSE Radix * Pow10(k - 1)

RECURSIVE Normalize(_, _)
Normalize(m, e) ==
    IF e > 0 /\ m % Radix = 0 THEN Normalize(m \div Radix, e - 1)
    ELSE [m |-> m, e |-> e]

Max(a, b) == IF a >= b THEN a ELSE b

Min(a, b) == IF a <= b THEN a ELSE b

Abs(n) == IF n < 0 THEN -n ELSE n

\* the mantissa of a at e fractional digits (e >= a.e)
Scaled(a, e) == a.m * Pow10(e - a.e)

NumAdd(a, b) ==
    LET e == Max(a.e, b.e) IN Normalize(Scaled(a, e) + Scaled(b, e), e)

NumNeg(a) == [m |-> -a.m, e |-> a.e]

NumSub(a, b) == NumAdd(a, NumNeg(b))

NumMul(a, b) == Normalize(a.m * b.m, a.e + b.e)

NumLess(a, b) ==
    LET e == Max(a.e, b.e) IN Scaled(a, e) < Scaled(b, e)

NumEq(a, b) == a.m = b.m /\ a.e = b.e

\* l / r for r # 0, cut (towards zero) to DivDigits fractional digits
NumDiv(l, r) ==
    LET num  == Abs(l.m) * Pow10(r.e + DivDigits)
        den  == Abs(r.m) * Pow10(l.e)
        q    == num \div den
        sign == IF (l.m < 0) = (r.m < 0) THEN 1 ELSE -1
    IN Normalize(sign * q, DivDigits)

\* f64::round() as usize: half away from zero, negative saturates to 0
RoundUsize(a) ==
    IF a.m <= 0 THEN 0
    ELSE (2 * a.m + Pow10(a.e)) \div (2 * Pow10(a.e))

----------------------------------------------------------------------------
(* Display of numbers (f64's Display: shortest decimal, no exponent). *)

DigitChars == <<"0", "1", "2", "3", "4", "5", "6", "7", "8", "9">>

RECURSIVE NatChars(_)
NatChars(n) ==
    IF n < Radix THEN <<DigitChars[n + 1]>>
    ELSE NatChars(n \div Radix) \o <<DigitChars[(n % Radix) + 1]>>

\* the k low digits of n, zero padded
RECURSIVE FracChars(_, _)
FracChars(n, k) ==
    IF k = 0 THEN <<>>
    ELSE FracChars(n \div Radix, k - 1) \o <<DigitChars[(n % Radix) + 1]>>

NumChars(a) ==
    LET p == Pow10(a.e)
        n == Abs(a.m)
    IN (IF a.m < 0 THEN <<"-">> ELSE <<>>)
       \o NatChars(n \div p)
       \o (IF a.e = 0 THEN <<>> ELSE <<".">> \o FracChars(n % p, a.e))

----------------------------------------------------------------------------
(* Tokens (token.rs).  A token is [kind] plus its payload: s for Identifier *)
(* and String, n for Number.                                                *)

Tok(k) == [kind |-> k]

IdentifierTok(s) == [kind |-> "Identifier", s |-> s]

StringTok(s) == [kind |-> "String", s |-> s]

NumberTok(n) == [kind |-> "Number", n |-> n]

UnknownTok(c) == [kind |-> "Unknown", c |-> c]

\* enum Token: the variants
TokenKinds ==
    {"LeftParen", "RightParen", "LeftBrace", "RightBrace", "At", "Comma", "Plus",
     "Minus", "Slash", "Star", "Range", "Semicolon", "Newline", "QuestionMark",
     "Colon",
     "Bang", "BangEqual", "Equal", "EqualEqual", "Greater", "GreaterEqual",
     "Less", "LessEqual",
     "Identifier", "String", "Number",
     "And", "Or", "Xor", "Not", "True", "False", "Class", "If", "Else", "While",
     "For", "Null", "Log", "Return", "Super", "This", "Fn", "Use", "Var",
     "Eof", "UnterminatedString", "Unknown"}

\* the pairs (K, K) and (K(_), K(_)) that the matches! of Token::eq lists
EqualKinds ==
    {"Identifier", "String", "Number", "Unknown",
     "LeftParen", "RightParen", "LeftBrace", "RightBrace", "At", "Comma", "Plus",
     "Minus", "Slash", "Star", "Range", "Semicolon", "Newline", "QuestionMark",
     "Colon", "Bang", "BangEqual", "Equal", "EqualEqual", "Greater",
     "GreaterEqual", "Less", "LessEqual", "And", "Or", "Xor", "Not", "True",
     "False", "Class", "If", "Else", "While", "For", "Null", "Log", "Return",
     "Super", "This", "Fn", "Use", "Var", "Eof", "UnterminatedString"}

\* mutant of TokenEq: #[derive(PartialEq)], which compares the payload too
TokenEqDerived(a, b) == a = b

\* impl PartialEq for Token: the payload is matched by `_`
TokenEq(a, b) == a.kind = b.kind /\ a.kind \in EqualKinds

KEYWORDS ==
    { [text |-> <<"a", "n", "d">>, kind |-> "And"],
      [text |-> <<"o", "r">>, kind |-> "Or"],
      [text |-> <<"x", "o", "r">>, kind |-> "Xor"],
      [text |-> <<"n", "o", "t">>, kind |-> "Not"],
      [text |-> <<"t", "r", "u", "e">>, kind |-> "True"],
      [text |-> <<"f", "a", "l", "s", "e">>, kind |-> "False"],
      [text |-> <<"c", "l", "a", "s", "s">>, kind |-> "Class"],
      [text |-> <<"i", "f">>, kind |-> "If"],
      [text |-> <<"e", "l", "s", "e">>, kind |-> "Else"],
      [text |-> <<"w", "h", "i", "l", "e">>, kind |-> "While"],
      [text |-> <<"f", "o", "r">>, kind |-> "For"],
      [text |-> <<"n", "u", "l", "l">>, kind |-> "Null"],
      [text |-> <<"l", "o", "g">>, kind |-> "Log"],
      [text |-> <<"r", "e", "t", "u", "r", "n">>, kind |-> "Return"],
      [text |-> <<"s", "u", "p", "e", "r">>, kind |-> "Super"],
      [text |-> <<"t", "h", "i", "s">>, kind |-> "This"],
      [text |-> <<"f", "n">>, kind |-> "Fn"],
      [text |-> <<"u", "s", "e">>, kind |-> "Use"],
      [text |-> <<"v", "a", "r">>, kind |-> "Var"] }

\* impl Display for Token, on the kinds that carry a payload or are keywords
\* (the punctuation kinds print their own characters and are never used as a name)
TokenToString(t) ==
    CASE t.kind = "Identifier" -> t.s
      [] t.kind = "String" -> t.s
      [] t.kind = "Number" -> NumChars(t.n)
      [] t.kind \in {k.kind : k \in KEYWORDS} ->
            (CHOOSE k \in KEYWORDS : k.kind = t.kind).text
      [] OTHER -> <<"?">>

IsValidValue(t) == t.kind \in {"Number", "String", "True", "False", "Null"}

----------------------------------------------------------------------------
(* Values (token.rs). *)

VNumber(n) == [kind |-> "Number", n |-> n]

VRange(l, r) == [kind |-> "Range", l |-> l, r |-> r]

VString(s) == [kind |-> "String", s |-> s]

VBoolean(b) == [kind |-> "Boolean", b |-> b]

VNull == [kind |-> "Null"]

\* impl From<Token> for Value (called on valid value tokens only)
ValueFrom(t) ==
    CASE t.kind = "Number" -> VNumber(t.n)
      [] t.kind = "String" -> VString(t.s)
      [] t.kind = "True" -> VBoolean(TRUE)
      [] t.kind = "False" -> VBoolean(FALSE)
      [] t.kind = "Null" -> VNull

\* impl Display for Value
ValueToString(v) ==
    CASE v.kind = "Number" -> NumChars(v.n)
      [] v.kind = "Range" -> NumChars(v.l) \o <<".", ".">> \o NumChars(v.r)
      [] v.kind = "String" -> v.s
      [] v.kind = "Boolean" ->
            IF v.b THEN <<"t", "r", "u", "e">> ELSE <<"f", "a", "l", "s", "e">>
      [] v.kind = "Null" -> <<"n", "u", "l", "l">>

IsTruthy(v) ==
    CASE v.kind = "Boolean" -> v.b
      [] v.kind = "Null" -> FALSE
      [] v.kind = "String" -> v.s # <<>>
      [] OTHER -> TRUE

----------------------------------------------------------------------------
(* Errors (icps.rs): the message and the name it cites (<<>> when none). *)

Error(msg, arg) == [msg |-> msg, arg |-> arg]

NoError == Error("", <<>>)

UndefinedVariable == "Undefined variable"

UseBeforeAssignment == "Runtime Error: Cannot use variable before assignment."

\* the Results of scan, parse and run, and the one of a call not made yet
NotRun == [st |-> "NotRun"]

OkTokens(tokens) == [st |-> "Ok", tokens |-> tokens, err |-> NoError]

OkStmts(stmts) == [st |-> "Ok", stmts |-> stmts, err |-> NoError]

----------------------------------------------------------------------------
(* Environment (environment.rs).  The chain is a sequence of scopes, the   *)
(* outermost first and the current one (Interpreter.env.values) last; a    *)
(* scope is a function from names to Values.  `previous` of a block is the *)
(* chain below the block's own scope: Rc<RefCell<..>> shares it, so a      *)
(* mutation made through the chain is seen when the block restores it.     *)

EnvironmentNew == << <<>> >>

NewLocal(e) == Append(e, <<>>)

\* the innermost level of e that defines key, 0 when none does
RECURSIVE Find(_, _, _)
Find(e, key, k) ==
    IF k = 0 THEN 0
    ELSE IF key \in DOMAIN e[k] THEN k
    ELSE Find(e, key, k - 1)

\* mutant of Define: overwrites the binding an enclosing scope already has
DefineOverwritesEnclosing(e, name, value) ==
    LET key == TokenToString(name)
        k   == Find(e, key, Len(e))
    IN IF k > 0 THEN [e EXCEPT ![k][key] = value]
       ELSE [e EXCEPT ![Len(e)] = (key :> value) @@ @]

Define(e, name, value) ==
    [e EXCEPT ![Len(e)] = (TokenToString(name) :> value) @@ @]

\* mutant of AssignEnv: an undefined name is bound in the current scope
AssignDefinesMissing(e, name, value) ==
    LET key == TokenToString(name)
        k   == Find(e, key, Len(e))
    IN IF k = 0
       THEN [ok |-> TRUE, env |-> [e EXCEPT ![Len(e)] = (key :> value) @@ @],
             err |-> NoError]
       ELSE [ok |-> TRUE, env |-> [e EXCEPT ![k][key] = value], err |-> NoError]

\* mutant of AssignEnv: assign without the `else if let Some(enclosing)` arm
AssignInnermostOnly(e, name, value) ==
    LET key == TokenToString(name)
    IN IF key \in DOMAIN e[Len(e)]
       THEN [ok |-> TRUE, env |-> [e EXCEPT ![Len(e)][key] = value], err |-> NoError]
       ELSE [ok |-> FALSE, env |-> e, err |-> Error(UndefinedVariable, key)]

AssignEnv(e, name, value) ==
    LET key == TokenToString(name)
        k   == Find(e, key, Len(e))
    IN IF k = 0
       THEN [ok |-> FALSE, env |-> e, err |-> Error(UndefinedVariable, key)]
       ELSE [ok |-> TRUE, env |-> [e EXCEPT ![k][key] = value], err |-> NoError]

Get(e, name) ==
    LET key == TokenToString(name)
        k   == Find(e, key, Len(e))
    IN IF k = 0
       THEN [ok |-> FALSE, val |-> VNull, err |-> Error(UndefinedVariable, key)]
       ELSE [ok |-> TRUE, val |-> e[k][key], err |-> NoError]

----------------------------------------------------------------------------
(* Syntax tree (the node shapes interpreter.rs matches on). *)

Literal(token) == [type |-> "Literal", token |-> token]

Grouping(e) == [type |-> "Grouping", e |-> e]

Unary(op, right) == [type |-> "Unary", op |-> op, right |-> right]

Binary(left, op, right) ==
    [type |-> "Binary", left |-> left, op |-> op, right |-> right]

Variable(name) == [type |-> "Variable", name |-> name]

Assign(name, value) == [type |-> "Assign", name |-> name, value |-> value]

Logical(left, op, right) ==
    [type |-> "Logical", left |-> left, op |-> op, right |-> right]

Expression(e) == [type |-> "Expression", e |-> e]

Log(e) == [type |-> "Log", e |-> e]

Declaration(name, initializer) ==
    [type |-> "Declaration", name |-> name, initializer |-> initializer]

Block(stmts) == [type |-> "Block", stmts |-> stmts]

If(condition, thenBranch, elseBranch) ==
    [type |-> "If", condition |-> condition, thenBranch |-> thenBranch,
     elseBranch |-> elseBranch]

While(condition, body) ==
    [type |-> "While", condition |-> condition, body |-> body]

For(name, iterable, body) ==
    [type |-> "For", name |-> name, iterable |-> iterable, body |-> body]

----------------------------------------------------------------------------
(* Interpreter (interpreter.rs).  The evaluator's state is threaded as a   *)
(* record: env and out are the program's, trace and fuel are the model's    *)
(* (history, and the number of loop iterations left before the run is cut   *)
(* as "Diverged"); st, val, err are the Result of the call that returned:   *)
(* "Ok" with val, "Err" with err, or "Panic" when the process aborts.       *)

State(e, out, tr, fuel) ==
    [env |-> e, out |-> out, trace |-> tr, fuel |-> fuel,
     st |-> "Ok", val |-> VNull, err |-> NoError]

Ok(S, v) == [S EXCEPT !.st = "Ok", !.val = v, !.err = NoError]

Err(S, msg, arg) == [S EXCEPT !.st = "Err", !.val = VNull, !.err = Error(msg, arg)]

Stop(S, st) == [S EXCEPT !.st = st, !.val = VNull, !.err = NoError]

Record(S, event) == [S EXCEPT !.trace = Append(@, event)]

RECURSIVE Repeat(_, _)
Repeat(s, n) == IF n = 0 THEN <<>> ELSE s \o Repeat(s, n - 1)

UnaryOp(S, op, right) ==
    CASE op.kind = "Minus" ->
            IF right.kind = "Number" THEN Ok(S, VNumber(NumNeg(right.n)))
            ELSE Err(S, "Runtime Error: Cannot negate non 'Number' expression.", <<>>)
      [] op.kind = "Bang" ->
            IF right.kind = "Boolean" THEN Ok(S, VBoolean(~right.b))
            ELSE Err(S, "Runtime Error: Cannot negate non 'Boolean' expression.", <<>>)
      [] OTHER -> Err(S, "Runtime Error: Invalid unary operator", <<>>)

Plus(S, left, right) ==
    CASE left.kind = "Number" /\ right.kind = "Number" ->
            Ok(S, VNumber(NumAdd(left.n, right.n)))
      [] left.kind = "Number" /\ right.kind = "String" ->
            Ok(S, VString(NumChars(left.n) \o right.s))
      [] left.kind = "Number" ->
            Err(S, "Runtime Error: Cannot add 'Number' with anything but 'Number' or 'String' or an expression evaluating to it", <<>>)
      [] left.kind = "String" /\ right.kind = "Number" ->
            Ok(S, VString(left.s \o NumChars(right.n)))
      [] left.kind = "String" /\ right.kind = "String" ->
            Ok(S, VString(left.s \o right.s))
      [] left.kind = "String" ->
            Err(S, "Runtime Error: Cannot add 'String' with anything but 'String' or 'Number' or an expression evaluating to it", <<>>)
      [] OTHER ->
            Err(S, "Runtime Error: Cannot add anything to a non 'Number' or 'String' expression.", <<>>)

Minus(S, left, right) ==
    CASE left.kind = "Number" /\ right.kind = "Number" ->
            Ok(S, VNumber(NumSub(left.n, right.n)))
      [] left.kind = "Number" ->
            Err(S, "Runtime Error: Cannot subtract 'Number' with anything but 'Number' or an expression evaluating to it", <<>>)
      [] OTHER ->
            Err(S, "Runtime Error: Cannot subtract anything from a non 'Number' expression.", <<>>)

Star(S, left, right) ==
    CASE left.kind = "Number" /\ right.kind = "Number" ->
            Ok(S, VNumber(NumMul(left.n, right.n)))
      [] left.kind = "Number" /\ right.kind = "String" ->
            Ok(S, VString(Repeat(right.s, RoundUsize(left.n))))
      [] left.kind = "Number" ->
            Err(S, "Runtime Error: Cannot multiply 'Number' with anything but 'Number' or 'String' or an expression evaluating to it", <<>>)
      [] left.kind = "String" /\ right.kind = "Number" ->
            Ok(S, VString(Repeat(left.s, RoundUsize(right.n))))
      [] left.kind = "String" ->
            Err(S, "Runtime Error: Cannot multiply 'String' with anything but 'Number' or an expression evaluating to it", <<>>)
      [] OTHER ->
            Err(S, "Runtime Error: Cannot multiply anything with a non 'Number' or 'String' expression.", <<>>)

\* what f64 division by zero gives: no decimal (an infinity or NaN)
NotFinite == [m |-> 1, e |-> 0 - 1]

\* mutant of Slash: no `if r == 0.0` test, the f64 quotient is returned
SlashWithoutZeroTest(S, left, right) ==
    IF right.kind = "Number"
    THEN IF left.kind = "Number"
         THEN Ok(S, VNumber(IF right.n.m = 0 THEN NotFinite
                            ELSE NumDiv(left.n, right.n)))
         ELSE Err(S, "Runtime Error: Cannot divide anything but 'Number' or an expression evaluating to it", <<>>)
    ELSE Err(S, "Runtime Error: Cannot divide by anything but 'Number' or an expression evaluating to it", <<>>)

Slash(S, left, right) ==
    IF right.kind = "Number"
    THEN IF right.n.m = 0
         THEN Err(S, "Runtime Error: Division by zero.", <<>>)
         ELSE IF left.kind = "Number"
              THEN Ok(S, VNumber(NumDiv(left.n, right.n)))
              ELSE Err(S, "Runtime Error: Cannot divide anything but 'Number' or an expression evaluating to it", <<>>)
    ELSE Err(S, "Runtime Error: Cannot divide by anything but 'Number' or an expression evaluating to it", <<>>)

RangeOp(S, left, right) ==
    IF left.kind = "Number" /\ right.kind = "Number"
    THEN Ok(S, VRange(left.n, right.n))
    ELSE Err(S, "Runtime Error: Cannot create a range with anything but 'Number' or an expression evaluating to it", <<>>)

Equality(S, op, left, right) ==
    LET comparison ==
            CASE left.kind = "Number" /\ right.kind = "Number" -> NumEq(left.n, right.n)
              [] left.kind = "String" /\ right.kind = "String" -> left.s = right.s
              [] left.kind = "Boolean" /\ right.kind = "Boolean" -> left.b = right.b
              [] left.kind = "Null" /\ right.kind = "Null" -> TRUE
              [] OTHER -> FALSE
    IN Ok(S, VBoolean(IF op.kind = "EqualEqual" THEN comparison ELSE ~comparison))

Comparison(S, op, left, right) ==
    IF left.kind = "Number"
    THEN IF right.kind = "Number"
         THEN Ok(S, VBoolean(
                CASE op.kind = "Greater" -> NumLess(right.n, left.n)
                  [] op.kind = "GreaterEqual" -> ~NumLess(left.n, right.n)
                  [] op.kind = "Less" -> NumLess(left.n, right.n)
                  [] op.kind = "LessEqual" -> ~NumLess(right.n, left.n)))
         ELSE Err(S, "Runtime Error: Cannot compare 'Number' with anything but 'Number' or an expression evaluating to it", <<>>)
    ELSE Err(S, "Runtime Error: Cannot compare anything with a non 'Number' expression.", <<>>)

\* the match on op.token of Expr::Binary
BinaryOp(S, op, left, right) ==
    CASE op.kind = "Plus" -> Plus(S, left, right)
      [] op.kind = "Minus" -> Minus(S, left, right)
      [] op.kind = "Star" -> Star(S, left, right)
      [] op.kind = "Slash" -> Slash(S, left, right)
      [] op.kind = "Range" -> RangeOp(S, left, right)
      [] op.kind \in {"EqualEqual", "BangEqual"} -> Equality(S, op, left, right)
      [] op.kind \in {"Greater", "GreaterEqual", "Less", "LessEqual"} ->
            Comparison(S, op, left, right)
      [] OTHER -> Err(S, "Runtime Error: Invalid binary operator", <<>>)

\* the tail of Expr::Logical, both operands evaluated
\* mutant of ShortCircuits: the right operand is always evaluated
NeverShortCircuits(op, left) == FALSE

\* `if op.token == Or && left { return true }` and
\* `if op.token == And && !left { return false }`: the operator returns
\* before its right operand is evaluated
ShortCircuits(op, left) ==
    \/ op.kind = "Or" /\ left
    \/ op.kind = "And" /\ ~left

LogicalOp(S, op, left, right) ==
    CASE op.kind = "Or" -> Ok(S, VBoolean(left \/ right))
      [] op.kind = "Xor" -> Ok(S, VBoolean(left # right))
      [] op.kind = "And" -> Ok(S, VBoolean(left /\ right))
      [] OTHER -> Err(S, "Runtime Error: Invalid logical operator. How did you do that bro?", <<>>)

\* a Binary or Logical node has produced its result: the trace keeps the
\* operator, the operand values it was applied to and the result
Operated(R, node, left, right) ==
    Record(R, [ev |-> "op", type |-> node.type, op |-> node.op.kind,
               left |-> left, right |-> right,
               st |-> R.st, val |-> R.val, err |-> R.err])

NotImplementedWarning ==
    <<"W", "a", "r", "n", "i", "n", "g", ":", " ", "C", "a", "l", "l", "e",
    "d", " ", "e", "v", "a", "l", "u", "a", "t", "e", " ", "e", "x", "p",
    "r", " ", "o", "n", " ", "a", " ", "n", "o", "n", " ", "i", "m", "p",
    "l", "e", "m", "e", "n", "t", "e", "d", " ", "o", "p", "e", "r", "a",
    "t", "i", "o", "n", "!">>

\* the `?` operator on the Result a call returned: anything but Ok is returned
\* to the caller as it is, Ok continues with K
Try(R, K(_)) == IF R.st # "Ok" THEN R ELSE K(R)

\* a `let` binding continued by K
Bind(R, K(_)) == K(R)

RECURSIVE Evaluate(_, _)
Evaluate(S, expr) ==
    CASE expr.type = "Literal" ->
            IF IsValidValue(expr.token) THEN Ok(S, ValueFrom(expr.token))
            ELSE Err(S, "Runtime Error: Invalid literal value.", <<>>)
      [] expr.type = "Grouping" -> Evaluate(S, expr.e)
      [] expr.type = "Unary" ->
            Try(Evaluate(S, expr.right), LAMBDA right :
                UnaryOp(right, expr.op, right.val))
      [] expr.type = "Binary" ->
            Try(Evaluate(S, expr.left), LAMBDA left :
                Try(Evaluate(left, expr.right), LAMBDA right :
                    Operated(BinaryOp(right, expr.op, left.val, right.val),
                             expr, left.val, right.val)))
      [] expr.type = "Variable" ->
            LET got == Get(S.env, expr.name)
            IN IF ~got.ok THEN Err(S, got.err.msg, got.err.arg)
               ELSE IF got.val.kind = "Null"
                    THEN Err(S, UseBeforeAssignment, TokenToString(expr.name))
                    ELSE Ok(S, got.val)
      [] expr.type = "Assign" ->
            Try(Evaluate(S, expr.value), LAMBDA value :
                LET set == AssignEnv(value.env, expr.name, value.val)
                IN IF ~set.ok THEN Err(value, set.err.msg, set.err.arg)
                   ELSE Ok([value EXCEPT !.env = set.env], value.val))
      [] expr.type = "Logical" ->
            Try(Evaluate(S, expr.left), LAMBDA le :
                LET left == IsTruthy(le.val)
                IN IF ShortCircuits(expr.op, left)
                   THEN Operated(Ok(le, VBoolean(expr.op.kind = "Or")),
                                 expr, le.val, <<>>)
                   ELSE Try(Evaluate(le, expr.right), LAMBDA re :
                            Operated(LogicalOp(re, expr.op, left, IsTruthy(re.val)),
                                     expr, le.val, <<re.val>>)))
      [] OTHER ->   \* Call, Get, Set, Super, This: a warning on stdout and Null
            Ok([S EXCEPT !.out = Append(@, NotImplementedWarning)], VNull)

Entered(S, stmt, path) ==
    Record(S, [ev |-> "enter", path |-> path, type |-> stmt.type, env |-> S.env])

Returned(R, stmt, path) ==
    Record(R, [ev |-> "exit", path |-> path, type |-> stmt.type,
               st |-> R.st, val |-> R.val, err |-> R.err, env |-> R.env,
               out |-> R.out])

\* the chain `previous` refers to, as it is when the statement restores it
Previous(e, depth) == SubSeq(e, 1, depth)

\* the loop variable of a For: its bound name, or the synthesized `i`
Actual(stmt) ==
    IF stmt.name # <<>> THEN stmt.name[1] ELSE IdentifierTok(<<"i">>)

ForVariableError == "Runtime Error: For loop variable must be a number."

RECURSIVE Execute(_, _, _)
RECURSIVE BlockLoop(_, _, _, _)
RECURSIVE WhileLoop(_, _, _)
RECURSIVE ForLoop(_, _, _, _)

\* Stmt::Block, `for stmt in stmts { out = self.execute(stmt); }`: no `?`, every
\* statement is executed and out is the last one's result
BlockLoop(S, stmts, k, path) ==
    IF k > Len(stmts) THEN S
    ELSE Bind(Execute(S, stmts[k], Append(path, k)), LAMBDA out :
              IF out.st \in {"Diverged", "Panic"} THEN out
              ELSE BlockLoop(out, stmts, k + 1, path))

\* Stmt::While
WhileLoop(S, stmt, path) ==
    Try(Evaluate(S, stmt.condition), LAMBDA c :
        IF ~IsTruthy(c.val) THEN Ok(c, VNull)
        ELSE IF c.fuel = 0 THEN Stop(c, "Diverged")
        ELSE Try(Execute([c EXCEPT !.fuel = @ - 1], stmt.body, Append(path, 1)),
                 LAMBDA b : WhileLoop(b, stmt, path)))

\* Stmt::For, the tail of one pass of the `while let` loop, the body executed:
\* the variable is read, incremented, and tested against end
\* mutant of ForIncrement: `else { break }` where the variable is no Number
ForIncrementBreaks(b, stmt, end, path) ==
    LET actual == Actual(stmt)
        i      == Get(b.env, actual)
    IN IF ~i.ok THEN Stop(b, "Panic")
       ELSE IF i.val.kind # "Number" THEN Stop(b, "Break")
       ELSE LET set == AssignEnv(b.env, actual,
                                 VNumber(NumAdd(i.val.n, [m |-> 1, e |-> 0])))
            IN IF ~set.ok THEN Err(b, set.err.msg, set.err.arg)
               ELSE IF ~NumLess(Get(set.env, actual).val.n, end)
                    THEN Stop([b EXCEPT !.env = set.env], "Break")
               ELSE Ok([b EXCEPT !.env = set.env], VNull)

ForIncrement(b, stmt, end, path) ==
    LET actual == Actual(stmt)
        i      == Get(b.env, actual)
    IN IF ~i.ok THEN Stop(b, "Panic")
       ELSE IF i.val.kind # "Number" THEN Err(b, ForVariableError, <<>>)
       ELSE LET set == AssignEnv(b.env, actual,
                                 VNumber(NumAdd(i.val.n, [m |-> 1, e |-> 0])))
            IN IF ~set.ok THEN Err(b, set.err.msg, set.err.arg)
               ELSE LET new == Get(set.env, actual)
                    IN IF ~new.ok THEN Stop([b EXCEPT !.env = set.env], "Panic")
                       ELSE IF new.val.kind # "Number"
                            THEN Err([b EXCEPT !.env = set.env], ForVariableError, <<>>)
                       ELSE IF ~NumLess(new.val.n, end)
                            THEN Stop([b EXCEPT !.env = set.env], "Break")
                       ELSE Ok([b EXCEPT !.env = set.env], VNull)

\* Stmt::For, the `while let Value::Number(i) = self.env.get(&actual).unwrap()`
\* loop: st = "Ok" when the loop is left by break (or by its condition), the
\* returned Result otherwise
ForLoop(S, stmt, end, path) ==
    LET top == Get(S.env, Actual(stmt))
    IN IF ~top.ok THEN Stop(S, "Panic")
       ELSE IF top.val.kind # "Number" THEN Ok(S, VNull)
       ELSE IF S.fuel = 0 THEN Stop(S, "Diverged")
       ELSE Try(Execute([S EXCEPT !.fuel = @ - 1], stmt.body, Append(path, 1)),
                LAMBDA b :
                    Bind(ForIncrement(b, stmt, end, path), LAMBDA a :
                         IF a.st = "Break" THEN Ok(a, VNull)
                         ELSE IF a.st # "Ok" THEN a
                         ELSE ForLoop(a, stmt, end, path)))

ExecuteFor(S, stmt, path) ==
    Try(Evaluate(S, stmt.iterable), LAMBDA it :
        IF it.val.kind # "Range"
        THEN Err(it, "Runtime Error: For loop iterable must be a range.", <<>>)
        ELSE LET previous == Len(it.env)
                 local    == [it EXCEPT !.env = Define(NewLocal(@), Actual(stmt),
                                                       VNumber(it.val.l))]
                 first    == Get(local.env, Actual(stmt))
             IN IF ~first.ok THEN Stop(local, "Panic")
                ELSE IF first.val.kind # "Number"
                     THEN Err(local, ForVariableError, <<>>)
                ELSE Try(ForLoop(local, stmt, it.val.r, path), LAMBDA loop :
                         IF loop.fuel = 0 THEN Stop(loop, "Diverged")
                         ELSE Try(Execute([loop EXCEPT !.fuel = @ - 1],
                                          stmt.body, Append(path, 1)),
                                  LAMBDA last :
                                      Ok([last EXCEPT !.env = Previous(@, previous)],
                                         VNull))))

\* Block with `self.env = saved` for a `saved = self.env.clone()` taken on
\* entry: the chain of the entry is restored, not the one the block wrote to
ExecuteBlockRestoresEntry(S, stmt, path) ==
    LET local == Ok([S EXCEPT !.env = NewLocal(@)], VNull)
    IN Bind(BlockLoop(local, stmt.stmts, 1, path), LAMBDA out :
            IF out.st \in {"Diverged", "Panic"} THEN out
            ELSE [out EXCEPT !.env = S.env])

ExecuteBlock(S, stmt, path) ==
    LET previous == Len(S.env)
        local    == Ok([S EXCEPT !.env = NewLocal(@)], VNull)
    IN Bind(BlockLoop(local, stmt.stmts, 1, path), LAMBDA out :
            IF out.st \in {"Diverged", "Panic"} THEN out
            ELSE [out EXCEPT !.env = Previous(@, previous)])

ExecuteIf(S, stmt, path) ==
    Try(Evaluate(S, stmt.condition), LAMBDA c :
        IF c.val.kind # "Boolean"
        THEN Err(c, "Runtime Error: Invalid condition.", <<>>)
        ELSE IF c.val.b THEN Execute(c, stmt.thenBranch, Append(path, 1))
        ELSE IF stmt.elseBranch # <<>>
             THEN Execute(c, stmt.elseBranch[1], Append(path, 2))
             ELSE Ok(c, VNull))

ExecuteLog(S, stmt) ==
    Try(Evaluate(S, stmt.e), LAMBDA v :
        [v EXCEPT !.out = Append(@, ValueToString(v.val))])

ExecuteDeclaration(S, stmt) ==
    Try(IF stmt.initializer # <<>> THEN Evaluate(S, stmt.initializer[1])
        ELSE Ok(S, VNull),
        LAMBDA value : Ok([value EXCEPT !.env = Define(@, stmt.name, value.val)], VNull))

Execute(S, stmt, path) ==
    Returned(CASE stmt.type = "Expression" -> Evaluate(Entered(S, stmt, path), stmt.e)
               [] stmt.type = "Log" -> ExecuteLog(Entered(S, stmt, path), stmt)
               [] stmt.type = "Declaration" ->
                      ExecuteDeclaration(Entered(S, stmt, path), stmt)
               [] stmt.type = "Block" -> ExecuteBlock(Entered(S, stmt, path), stmt, path)
               [] stmt.type = "If" -> ExecuteIf(Entered(S, stmt, path), stmt, path)
               [] stmt.type = "While" -> WhileLoop(Entered(S, stmt, path), stmt, path)
               [] stmt.type = "For" -> ExecuteFor(Entered(S, stmt, path), stmt, path)
               [] OTHER -> Err(Entered(S, stmt, path),
                               "Runtime Error: Not Implemented.", <<>>),
             stmt, path)

\* Interpreter::interpret: `for stmt in stmts { self.execute(&stmt)?; } Ok(())`
RECURSIVE InterpretLoop(_, _, _)
\* interpret with `let _ = self.execute(&stmt);`: errors are dropped
RECURSIVE InterpretLoopContinues(_, _, _)
InterpretLoopContinues(S, stmts, k) ==
    IF k > Len(stmts) THEN Ok(S, VNull)
    ELSE Bind(Execute(S, stmts[k], <<k>>), LAMBDA r :
              IF r.st \in {"Diverged", "Panic"} THEN r
              ELSE InterpretLoopContinues(r, stmts, k + 1))

InterpretLoop(S, stmts, k) ==
    IF k > Len(stmts) THEN Ok(S, VNull)
    ELSE Try(Execute(S, stmts[k], <<k>>), LAMBDA r : InterpretLoop(r, stmts, k + 1))

Interpret(S, stmts) == InterpretLoop(S, stmts, 1)

----------------------------------------------------------------------------
(* Scanner (scanner.rs).  A source text is a sequence of characters; the    *)
(* scanner is [it, tokens]: the characters not yet taken from the iterator  *)
(* and the tokens emitted.  Loc is not modelled.                            *)

Quote == "\""

NewlineChar == "\n"

Letters ==
    {"a", "b", "c", "d", "e", "f", "g", "h", "i", "j", "k", "l", "m", "n", "o",
     "p", "q", "r", "s", "t", "u", "v", "w", "x", "y", "z"}

Digits == {DigitChars[d] : d \in DOMAIN DigitChars}

\* char::is_digit(10)
IsDigit(c) == c \in Digits

\* char::is_alphanumeric
IsAlphanumeric(c) == c \in Letters \/ IsDigit(c)

DigitValue(c) == (CHOOSE d \in DOMAIN DigitChars : DigitChars[d] = c) - 1

RECURSIVE NatOf(_)
NatOf(digits) ==
    IF digits = <<>> THEN 0
    ELSE Radix * NatOf(SubSeq(digits, 1, Len(digits) - 1))
             + DigitValue(digits[Len(digits)])

\* str::parse::<f64> on a text of digits and dots: None (the empty sequence)
\* unless it is digits with at most one `.` and at least one digit
ParseF64(s) ==
    LET dots == {i \in DOMAIN s : s[i] = "."}
    IN IF \/ Cardinality(dots) > 1
          \/ Len(s) = Cardinality(dots)
          \/ \E i \in DOMAIN s : s[i] # "." /\ ~IsDigit(s[i])
       THEN <<>>
       ELSE LET d == IF dots = {} THEN Len(s) + 1 ELSE CHOOSE i \in dots : TRUE
            IN <<Normalize(NatOf(SubSeq(s, 1, d - 1) \o SubSeq(s, d + 1, Len(s))),
                           Len(s) - Min(d, Len(s)))>>

ScannerNew(src) == [it |-> src, tokens |-> <<>>]

\* what one pass of the match in scan yields: a token to emit, `continue`,
\* an error to return, or the abort of a failed unwrap
Token(sc, token) == [k |-> "Ok", sc |-> sc, token |-> token]

Continue(sc) == [k |-> "Continue", sc |-> sc]

Fail(sc, msg, arg) == [k |-> "Err", sc |-> sc, err |-> Error(msg, arg)]

Abort(sc) == [k |-> "Panic", sc |-> sc]

PeekChar(sc) == IF sc.it = <<>> THEN <<>> ELSE <<Head(sc.it)>>

NextChar(sc) == [sc EXCEPT !.it = IF @ = <<>> THEN <<>> ELSE Tail(@)]

Skip(sc, n) == [sc EXCEPT !.it = SubSeq(@, n + 1, Len(@))]

Emit(sc, token) == [sc EXCEPT !.tokens = Append(@, token)]

\* the characters a `while let Some(&c) = self.peek()` loop takes while c is
\* of the class
RECURSIVE TakeWhile(_, _)
TakeWhile(it, Class) ==
    IF it # <<>> /\ Head(it) \in Class
    THEN <<Head(it)>> \o TakeWhile(Tail(it), Class)
    ELSE <<>>

\* the characters a `while let Some(c) = self.next()` loop takes before it
\* meets stop (which it takes too) or the end of the input
RECURSIVE Before(_, _)
Before(it, stop) ==
    IF it = <<>> \/ Head(it) = stop THEN <<>>
    ELSE <<Head(it)>> \o Before(Tail(it), stop)

\* the `/*` loop: what is left of the input after the comment
RECURSIVE AfterComment(_)
AfterComment(it) ==
    IF it = <<>> THEN <<>>
    ELSE IF Head(it) = "*" /\ Len(it) > 1 /\ it[2] = "/" THEN SubSeq(it, 3, Len(it))
    ELSE AfterComment(Tail(it))

\* Scanner::string: the loop ends at the closing quote or at the end of the
\* input; the test after it is on the parameter c, the opening quote
String(sc, c) ==
    LET s == Before(sc.it, Quote)
    IN IF c = Quote THEN Token(Skip(sc, Len(s) + 1), StringTok(s))
       ELSE Fail(Skip(sc, Len(s) + 1), "Unterminated string", <<>>)

\* Scanner::number
Number(sc, start_char) ==
    LET number_string == <<start_char>> \o TakeWhile(sc.it, Digits)
        number        == ParseF64(number_string)
    IN IF number = <<>>
       THEN Fail(Skip(sc, Len(number_string) - 1), "Invalid number", <<>>)
       ELSE Token(Skip(sc, Len(number_string) - 1), NumberTok(number[1]))

\* Scanner::collect_decimal_part
CollectDecimalPart(sc) == <<".">> \o TakeWhile(sc.it, Digits)

\* Scanner::identifier
Identifier(sc, c) ==
    LET s == <<c>> \o TakeWhile(sc.it, Letters \cup Digits)
    IN Token(Skip(sc, Len(s) - 1),
             IF \E k \in KEYWORDS : k.text = s
             THEN Tok((CHOOSE k \in KEYWORDS : k.text = s).kind)
             ELSE IdentifierTok(s))

\* the `.` arm of scan followed by a digit: the decimal part is folded into
\* the last token when that is a Number
Decimal(sc) ==
    LET decimal_part == CollectDecimalPart(sc)
        rest         == Skip(sc, Len(decimal_part) - 1)
        last         == Len(sc.tokens)
    IN IF last > 0 /\ sc.tokens[last].kind = "Number"
       THEN LET decimal_number ==
                    ParseF64(NumChars(sc.tokens[last].n) \o decimal_part)
            IN IF decimal_number = <<>> THEN Abort(rest)
               ELSE Continue([rest EXCEPT !.tokens[last] =
                                  NumberTok(decimal_number[1])])
       ELSE Fail(rest, "Unexpected character '.'", <<>>)

\* `match self.peek() { Some('=') => { self.next(); Ok(two) } _ => Ok(one) }`
OrEqual(sc, one, two) ==
    IF PeekChar(sc) = <<"=">> THEN Token(NextChar(sc), Tok(two))
    ELSE Token(sc, Tok(one))

Punctuation ==
    { [c |-> "(", kind |-> "LeftParen"], [c |-> ")", kind |-> "RightParen"],
      [c |-> "{", kind |-> "LeftBrace"], [c |-> "}", kind |-> "RightBrace"],
      [c |-> "@", kind |-> "At"], [c |-> ",", kind |-> "Comma"],
      [c |-> "+", kind |-> "Plus"], [c |-> "-", kind |-> "Minus"],
      [c |-> "*", kind |-> "Star"], [c |-> ";", kind |-> "Semicolon"],
      [c |-> "?", kind |-> "QuestionMark"], [c |-> ":", kind |-> "Colon"],
      [c |-> NewlineChar, kind |-> "Newline"] }

\* the inner match of scan on the character c just taken from the iterator
Match(sc, c) ==
    CASE c \in {" ", "\r", "\t"} -> Continue(sc)
      [] \E p \in Punctuation : p.c = c ->
            Token(sc, Tok((CHOOSE p \in Punctuation : p.c = c).kind))
      [] c = "/" ->
            IF PeekChar(sc) = <<"/">>
            THEN Token(Skip(sc, Len(Before(sc.it, NewlineChar)) + 1), Tok("Newline"))
            ELSE IF PeekChar(sc) = <<"*">>
            THEN Continue([sc EXCEPT !.it = AfterComment(@)])
            ELSE Token(sc, Tok("Slash"))
      [] c = "!" -> OrEqual(sc, "Bang", "BangEqual")
      [] c = "=" -> OrEqual(sc, "Equal", "EqualEqual")
      [] c = ">" -> OrEqual(sc, "Greater", "GreaterEqual")
      [] c = "<" -> OrEqual(sc, "Less", "LessEqual")
      [] c = Quote -> String(sc, c)
      [] c = "." ->
            IF PeekChar(sc) = <<".">> THEN Token(NextChar(sc), Tok("Range"))
            ELSE IF PeekChar(sc) # <<>> /\ IsDigit(PeekChar(sc)[1]) THEN Decimal(sc)
            ELSE Fail(sc, "Unexpected character '.'", <<>>)
      [] OTHER ->
            IF IsDigit(c) THEN Number(sc, c)
            ELSE IF IsAlphanumeric(c) THEN Identifier(sc, c)
            ELSE Fail(sc, "Unexpected character", <<c>>)

ErrTokens(msg, arg) == [st |-> "Err", tokens |-> <<>>, err |-> Error(msg, arg)]

PanicTokens == [st |-> "Panic", tokens |-> <<>>, err |-> NoError]

\* the `while let Some(c) = self.it.next()` loop of scan, and what follows it
RECURSIVE ScanLoop(_)
ScanLoop(sc) ==
    IF sc.it = <<>> THEN OkTokens(Emit(sc, Tok("Eof")).tokens)
    ELSE Bind(Match(NextChar(sc), Head(sc.it)), LAMBDA m :
              CASE m.k = "Ok" -> ScanLoop(Emit(m.sc, m.token))
                [] m.k = "Continue" -> ScanLoop(m.sc)
                [] m.k = "Err" -> ErrTokens(m.err.msg, m.err.arg)
                [] OTHER -> PanicTokens)

\* scan with an early `return Ok(vec![])` for an empty source
ScanReturnsEarly(src) ==
    IF src = <<>> THEN OkTokens(<<>>) ELSE ScanLoop(ScannerNew(src))

\* Scanner::new(source).scan()
Scan(src) == ScanLoop(ScannerNew(src))

----------------------------------------------------------------------------
(* Parser (parser.rs), under the names of its functions.  The parser is     *)
(* [tokens, cur] and is threaded through the calls together with the Result *)
(* of the call that returned (st, val, err) and the flag of the last cmp!.  *)
(* The token sequence is one scan returns: it ends with Eof, so cur stays   *)
(* inside it.                                                               *)

ParserNew(tokens) ==
    [tokens |-> tokens, cur |-> 0, matched |-> FALSE,
     st |-> "Ok", val |-> <<>>, err |-> NoError]

ErrStmts(err) == [st |-> "Err", stmts |-> <<>>, err |-> err]

peek(P) == P.tokens[P.cur + 1]

previous(P) == P.tokens[P.cur]

is_at_end(P) == TokenEq(peek(P), Tok("Eof"))

advance(P) == IF ~is_at_end(P) THEN [P EXCEPT !.cur = @ + 1] ELSE P

check(P, kind) == IF is_at_end(P) THEN FALSE ELSE TokenEq(peek(P), Tok(kind))

\* the body of the macro cmp!: one `if check { advance; matched = true }`
\* per type, in the order written
RECURSIVE cmp_each(_, _)
cmp_each(P, types) ==
    IF types = <<>> THEN P
    ELSE cmp_each(IF check(P, Head(types))
                  THEN [advance(P) EXCEPT !.matched = TRUE]
                  ELSE P,
                  Tail(types))

cmp(P, types) == cmp_each([P EXCEPT !.matched = FALSE], types)

consume(P, kind) ==
    IF check(P, kind) THEN Ok(advance(P), previous(advance(P)))
    ELSE Err(P, "Expected closing '{}' after statement.", <<kind>>)

ExpectedTerminator == "Expected ';' or newline after statement."

end_statement_if_not_else(P) ==
    Bind(cmp(P, <<"Semicolon", "Newline", "Eof">>), LAMBDA m :
         IF m.matched \/ TokenEq(peek(m), Tok("Else")) THEN Ok(m, <<>>)
         ELSE Err(m, ExpectedTerminator, <<>>))

end_statement(P) ==
    Bind(cmp(P, <<"Semicolon", "Newline", "Eof">>), LAMBDA m :
         IF m.matched THEN Ok(m, <<>>)
         ELSE Err(m, ExpectedTerminator, <<>>))

RECURSIVE declaration(_)
RECURSIVE statement(_)
RECURSIVE if_statement(_)
RECURSIVE while_loop(_)
RECURSIVE for_loop(_)
RECURSIVE block_statements(_, _)
RECURSIVE block(_)
RECURSIVE variable(_)
RECURSIVE log(_)
RECURSIVE expression_statement(_)
RECURSIVE expression(_)
RECURSIVE assignment(_)
RECURSIVE or(_)
RECURSIVE or_loop(_)
RECURSIVE and(_)
RECURSIVE and_loop(_)
RECURSIVE equality(_)
RECURSIVE equality_loop(_)
RECURSIVE comparison(_)
RECURSIVE comparison_loop(_)
RECURSIVE term(_)
RECURSIVE term_loop(_)
RECURSIVE factor(_)
RECURSIVE factor_loop(_)
RECURSIVE range(_)
RECURSIVE range_loop(_)
RECURSIVE unary(_)
RECURSIVE primary(_)

declaration(P) ==
    Bind(cmp(P, <<"Var">>), LAMBDA m :
         IF m.matched THEN variable(m) ELSE statement(m))

statement(P) ==
    CASE cmp(P, <<"If">>).matched -> if_statement(cmp(P, <<"If">>))
      [] cmp(P, <<"Log">>).matched -> log(cmp(P, <<"Log">>))
      [] cmp(P, <<"While">>).matched -> while_loop(cmp(P, <<"While">>))
      [] cmp(P, <<"For">>).matched -> for_loop(cmp(P, <<"For">>))
      [] cmp(P, <<"LeftBrace">>).matched ->
            Try(block(cmp(P, <<"LeftBrace">>)), LAMBDA b : Ok(b, Block(b.val)))
      [] OTHER -> expression_statement(P)

if_statement(P) ==
    Try(expression(P), LAMBDA condition :
        Try(statement(cmp(condition, <<"Newline">>)), LAMBDA then_branch :
            Bind(cmp(cmp(then_branch, <<"Newline">>), <<"Else">>), LAMBDA m :
                 IF m.matched
                 THEN Try(statement(cmp(m, <<"Newline">>)), LAMBDA else_branch :
                          Ok(else_branch, If(condition.val, then_branch.val,
                                             <<else_branch.val>>)))
                 ELSE Ok(m, If(condition.val, then_branch.val, <<>>)))))

while_loop(P) ==
    Try(expression(P), LAMBDA condition :
        Try(statement(cmp(condition, <<"Newline">>)), LAMBDA body :
            Ok(body, While(condition.val, body.val))))

for_loop(P) ==
    LET named == peek(P).kind = "Identifier"
        var   == IF named THEN <<previous(advance(P))>> ELSE <<>>
    IN Try(range(IF named THEN advance(P) ELSE P), LAMBDA iterable :
           Try(statement(cmp(iterable, <<"Newline">>)), LAMBDA body :
               Ok(body, For(var, iterable.val, body.val))))

\* the first loop of block: `while self.check(Newline) { self.advance(); }`
RECURSIVE block_newlines(_)
block_newlines(P) ==
    IF check(P, "Newline") THEN block_newlines(advance(P)) ELSE P

\* the second loop of block, and the consume that follows it
block_statements(P, statements) ==
    IF ~check(P, "RightBrace") /\ ~is_at_end(P)
    THEN Try(declaration(P), LAMBDA d :
             block_statements(d, Append(statements, d.val)))
    ELSE Try(consume(P, "RightBrace"), LAMBDA c : Ok(c, statements))

block(P) == block_statements(block_newlines(P), <<>>)

variable(P) ==
    Try(consume(P, "Identifier"), LAMBDA name :
        Bind(cmp(name, <<"Equal">>), LAMBDA m :
             IF m.matched
             THEN Try(expression(m), LAMBDA initializer :
                      Try(end_statement(initializer), LAMBDA e :
                          Ok(e, Declaration(name.val, <<initializer.val>>))))
             ELSE Try(end_statement(m), LAMBDA e :
                      Ok(e, Declaration(name.val, <<>>)))))

log(P) ==
    Try(expression(P), LAMBDA out :
        Try(end_statement_if_not_else(out), LAMBDA e : Ok(e, Log(out.val))))

\* the Result of end_statement_if_not_else is dropped: what it consumed stays
\* consumed, its error is not returned
expression_statement(P) ==
    Try(expression(P), LAMBDA out :
        Bind(end_statement_if_not_else(out), LAMBDA e :
             Ok(e, Expression(out.val))))

expression(P) == assignment(P)

\* assignment with `_ => Ok(value)`: another target is dropped without an error
assignment_any_target(P) ==
    Try(or(P), LAMBDA expr :
        Bind(cmp(expr, <<"Equal">>), LAMBDA m :
             IF m.matched
             THEN Try(assignment(m), LAMBDA value :
                      IF expr.val.type = "Variable"
                      THEN Ok(value, Assign(expr.val.name, value.val))
                      ELSE Ok(value, value.val))
             ELSE m))

assignment(P) ==
    Try(or(P), LAMBDA expr :
        Bind(cmp(expr, <<"Equal">>), LAMBDA m :
             IF m.matched
             THEN Try(assignment(m), LAMBDA value :
                      IF expr.val.type = "Variable"
                      THEN Ok(value, Assign(expr.val.name, value.val))
                      ELSE Err(value, "Invalid assignment target.", <<>>))
             ELSE m))

or_loop(expr) ==
    Bind(cmp(expr, <<"Or", "Xor">>), LAMBDA m :
         IF m.matched
         THEN Try(and(m), LAMBDA right :
                  or_loop(Ok(right, Logical(expr.val, previous(m), right.val))))
         ELSE m)

or(P) == Try(and(P), LAMBDA expr : or_loop(expr))

and_loop(expr) ==
    Bind(cmp(expr, <<"And">>), LAMBDA m :
         IF m.matched
         THEN Try(equality(m), LAMBDA right :
                  and_loop(Ok(right, Logical(expr.val, previous(m), right.val))))
         ELSE m)

and(P) == Try(equality(P), LAMBDA expr : and_loop(expr))

equality_loop(expr) ==
    Bind(cmp(expr, <<"BangEqual", "EqualEqual">>), LAMBDA m :
         IF m.matched
         THEN Try(comparison(m), LAMBDA right :
                  equality_loop(Ok(right, Binary(expr.val, previous(m), right.val))))
         ELSE m)

equality(P) == Try(comparison(P), LAMBDA left : equality_loop(left))

comparison_loop(expr) ==
    Bind(cmp(expr, <<"Greater", "GreaterEqual", "Less", "LessEqual">>), LAMBDA m :
         IF m.matched
         THEN Try(term(m), LAMBDA right :
                  comparison_loop(Ok(right, Binary(expr.val, previous(m), right.val))))
         ELSE m)

comparison(P) == Try(term(P), LAMBDA left : comparison_loop(left))

term_loop(expr) ==
    Bind(cmp(expr, <<"Minus", "Plus">>), LAMBDA m :
         IF m.matched
         THEN Try(factor(m), LAMBDA right :
                  term_loop(Ok(right, Binary(expr.val, previous(m), right.val))))
         ELSE m)

term(P) == Try(factor(P), LAMBDA left : term_loop(left))

factor_loop(expr) ==
    Bind(cmp(expr, <<"Slash", "Star">>), LAMBDA m :
         IF m.matched
         THEN Try(unary(m), LAMBDA right :
                  factor_loop(Ok(right, Binary(expr.val, previous(m), right.val))))
         ELSE m)

factor(P) == Try(range(P), LAMBDA left : factor_loop(left))

range_loop(expr) ==
    Bind(cmp(expr, <<"Range">>), LAMBDA m :
         IF m.matched
         THEN Try(unary(m), LAMBDA right :
                  range_loop(Ok(right, Binary(expr.val, previous(m), right.val))))
         ELSE m)

range(P) == Try(unary(P), LAMBDA left : range_loop(left))

unary(P) ==
    Bind(cmp(P, <<"Bang", "Minus">>), LAMBDA m :
         IF m.matched
         THEN Try(unary(m), LAMBDA right : Ok(right, Unary(previous(m), right.val)))
         ELSE primary(m))

primary(P) ==
    LET token == peek(P)
    IN CASE token.kind \in {"False", "True", "Null", "Number", "String"} ->
                Ok(advance(P), Literal(token))
         [] token.kind = "Identifier" -> Ok(advance(P), Variable(token))
         [] token.kind = "LeftParen" ->
                Try(expression(advance(P)), LAMBDA expr :
                    Try(consume(expr, "RightParen"), LAMBDA c :
                        Ok(c, Grouping(expr.val))))
         [] OTHER -> Err(P, "Expected expression, but found", <<token.kind>>)

\* the loop of Parser::parse
RECURSIVE parse_loop(_, _)
\* parse with `Err(e) => break`: the statements before the error are returned
RECURSIVE parse_loop_breaks(_, _)
parse_loop_breaks(P, statements) ==
    IF is_at_end(P) THEN OkStmts(statements)
    ELSE Bind(cmp(P, <<"Semicolon", "Newline">>), LAMBDA m :
              IF m.matched THEN parse_loop_breaks(m, statements)
              ELSE Bind(declaration(m), LAMBDA d :
                        IF d.st # "Ok" THEN OkStmts(statements)
                        ELSE parse_loop_breaks(d, Append(statements, d.val))))

parse_loop(P, statements) ==
    IF is_at_end(P) THEN OkStmts(statements)
    ELSE Bind(cmp(P, <<"Semicolon", "Newline">>), LAMBDA m :
              IF m.matched THEN parse_loop(m, statements)
              ELSE Bind(declaration(m), LAMBDA d :
                        IF d.st # "Ok" THEN ErrStmts(d.err)
                        ELSE parse_loop(d, Append(statements, d.val))))

\* Parser::new(&tokens).parse()
parse(tokens) == parse_loop(ParserNew(tokens), <<>>)

----------------------------------------------------------------------------
(* run (icps.rs): scan, parse, interpret, on the Interpreter the caller     *)
(* keeps from one call to the next.                                         *)

\* the Result of run and what the call leaves behind; S is the Interpreter
\* (and the output written so far) as the call found it
Ran(scanned_, parsed_, R) == [scanned |-> scanned_, parsed |-> parsed_, final |-> R]

run(src, S) ==
    Bind(Scan(src), LAMBDA tokens :
         IF tokens.st = "Panic" THEN Ran(tokens, NotRun, Stop(S, "Panic"))
         ELSE IF tokens.st # "Ok"
         THEN Ran(tokens, NotRun, Err(S, tokens.err.msg, tokens.err.arg))
         ELSE Bind(parse(tokens.tokens), LAMBDA tree :
                   IF tree.st # "Ok"
                   THEN Ran(tokens, tree, Err(S, tree.err.msg, tree.err.arg))
                   ELSE Ran(tokens, tree, Interpret(S, tree.stmts))))

----------------------------------------------------------------------------
(* The programs the interpreter is run on: statement lists the parser can  *)
(* build.  A program is a setup (top-level declarations), one statement    *)
(* under study and a final `log x`.                                        *)

X == IdentifierTok(<<"x">>)

Y == IdentifierTok(<<"y">>)

Num(k) == [m |-> k, e |-> 0]

NumLit(k) == Literal(NumberTok(Num(k)))

RangeOf(a, b) == Binary(NumLit(a), Tok("Range"), NumLit(b))

SeqsUpTo(S, n) == UNION {[1..k -> S] : k \in 0..n}

LitTokens ==
    {NumberTok(Num(k)) : k \in 0..MaxNum}
        \cup {Tok("True"), Tok("Null"), StringTok(<<"a">>)}

Operands == {Literal(t) : t \in LitTokens} \cup {Variable(X), Variable(Y)}

Comparisons ==
    {Binary(a, Tok(op), b) : a \in Operands, b \in Operands,
                             op \in {"EqualEqual", "BangEqual"}}

SimpleStmts ==
    { Log(Variable(X)),
      Log(Variable(Y)),
      Declaration(X, <<NumLit(MaxNum)>>),
      Declaration(Y, <<>>),
      Expression(Assign(X, NumLit(0))),
      Expression(Assign(Y, Literal(Tok("True")))) }

Blocks == {Block(ss) : ss \in SeqsUpTo(SimpleStmts, MaxBlockLen)}

NestedBlocks ==
    {Block(<<d, Block(<<Declaration(X, <<Literal(Tok("True"))>>), s>>), Log(Variable(X))>>) :
        d \in SimpleStmts, s \in SimpleStmts}

ForBodies == SimpleStmts \cup {Block(<<s>>) : s \in SimpleStmts}

Fors ==
    {For(nm, RangeOf(a, b), body) :
        nm \in {<<>>, <<X>>}, a \in 0..MaxNum, b \in 0..MaxNum, body \in ForBodies}

BlocksWithFor ==
    {Block(<<For(<<X>>, RangeOf(0, 1), body), s>>) :
        body \in SimpleStmts, s \in SimpleStmts}

XPlusOne == Binary(Variable(X), Tok("Plus"), NumLit(1))

Whiles ==
    {While(Binary(Variable(X), Tok("Less"), NumLit(MaxNum)), body) :
        body \in {Expression(Assign(X, XPlusOne)),
                  Block(<<Log(Variable(X)), Expression(Assign(X, XPlusOne))>>),
                  Log(Variable(Y))}}

Ifs ==
    {If(c, t, e) :
        c \in {Literal(Tok("True")), Literal(Tok("False")), Variable(X)},
        t \in SimpleStmts,
        e \in {<<>>, <<Log(Variable(X))>>}}

\* `var x = 5 \n { var x = 10 \n log x \n } \n log x`
ShadowExample ==
    << Declaration(X, <<NumLit(5)>>),
       Block(<<Declaration(X, <<NumLit(10)>>), Log(Variable(X))>>),
       Log(Variable(X)) >>

\* `var x = 1 \n log x \n y = 2 \n log x`: y is not declared
StopExample ==
    << Declaration(X, <<NumLit(1)>>),
       Log(Variable(X)),
       Expression(Assign(Y, NumLit(2))),
       Log(Variable(X)) >>

\* `var x = 0 \n { while x < MaxNum { { x = x + 1 } } } \n log x`
DeepAssignExample ==
    << Declaration(X, <<NumLit(0)>>),
       Block(<<While(Binary(Variable(X), Tok("Less"), NumLit(MaxNum)),
                     Block(<<Block(<<Expression(Assign(X, XPlusOne))>>)>>))>>),
       Log(Variable(X)) >>

LogicalLefts ==
    {Literal(t) : t \in {Tok("True"), Tok("False"), Tok("Null"), NumberTok(Num(0)),
                         StringTok(<<"a">>), StringTok(<<>>)}}
        \cup {Variable(X)}

LogicalRights ==
    {Assign(X, NumLit(0)), Assign(X, Literal(Tok("Null"))), Variable(Y),
     Literal(Tok("True")), Literal(Tok("Null"))}

Logicals ==
    {Expression(Logical(l, Tok(op), r)) :
        l \in LogicalLefts, op \in {"Or", "Xor", "And"}, r \in LogicalRights}

\* 0, 1, MaxNum, 0.5, -1, 1 - 1, true, null, "a" and x
DivisionOperands ==
    {NumLit(0), NumLit(1), NumLit(MaxNum), Literal(NumberTok([m |-> 5, e |-> 1])),
     Unary(Tok("Minus"), NumLit(1)),
     Binary(NumLit(1), Tok("Minus"), NumLit(1)),
     Literal(Tok("True")), Literal(Tok("Null")), Literal(StringTok(<<"a">>)),
     Variable(X)}

Divisions ==
    {Expression(Binary(l, Tok("Slash"), r)) :
        l \in DivisionOperands, r \in DivisionOperands}

\* for statements over a value that is no range, and with a body that makes
\* the loop variable a Boolean, a String or Null
ForFaults ==
    {For(<<X>>, iterable, body) :
        iterable \in {NumLit(1), Literal(Tok("True")), Literal(StringTok(<<"a">>)),
                      Variable(Y), RangeOf(0, MaxNum)},
        body \in {Log(Variable(X)),
                  Expression(Assign(X, Literal(Tok("True")))),
                  Declaration(X, <<>>),
                  Block(<<Log(Variable(X)),
                          Expression(Assign(X, Literal(StringTok(<<"a">>)))),
                          Log(Variable(X))>>)}}

\* `==` and `!=` between ranges, and between a range and a number
RangeComparisons ==
    {Binary(a, Tok(op), b) : a, b \in {RangeOf(0, 1), RangeOf(0, MaxNum), NumLit(0)},
                             op \in {"EqualEqual", "BangEqual"}}

Mains ==
    {Expression(c) : c \in Comparisons \cup RangeComparisons} \cup SimpleStmts \cup Blocks
        \cup NestedBlocks \cup Fors \cup BlocksWithFor \cup Whiles \cup Ifs
        \cup Logicals \cup Divisions \cup ForFaults

Setups ==
    { <<>>,
      <<Declaration(X, <<NumLit(1)>>)>>,
      <<Declaration(X, <<NumLit(1)>>), Declaration(Y, <<>>)>> }

Programs ==
    {setup \o <<main, Log(Variable(X))>> : setup \in Setups, main \in Mains}
        \cup {ShadowExample, StopExample, DeepAssignExample}

----------------------------------------------------------------------------
(* Spec: one interpret call of a fresh Interpreter on a program. *)

Init ==
    /\ pc = "ready"
    /\ source = <<>>
    /\ scanned = NotRun
    /\ parsed \in {OkStmts(p) : p \in Programs}
    /\ env = EnvironmentNew
    /\ output = <<>>
    /\ trace = <<>>
    /\ result = NotRun
    /\ runs = 0

InterpretProgram ==
    /\ pc = "ready"
    /\ LET R == Interpret(State(env, output, <<>>, MaxSteps), parsed.stmts)
       IN /\ env' = R.env
          /\ output' = R.out
          /\ trace' = R.trace
          /\ result' = [st |-> R.st, err |-> R.err]
    /\ pc' = "done"
    /\ UNCHANGED <<source, scanned, parsed, runs>>

Next == InterpretProgram

Spec == Init /\ [][Next]_vars

----------------------------------------------------------------------------
(* The source texts run is called on. *)

\* for i in 0..3 { log i }
ForInSource ==
    <<"f", "o", "r", " ", "i", " ", "i", "n", " ", "0", ".", ".", "3", " ",
      "{", " ", "l", "o", "g", " ", "i", " ", "}">>

\* for i in 0..3 {\nlog i\n}\n
ForInLinesSource ==
    <<"f", "o", "r", " ", "i", " ", "i", "n", " ", "0", ".", ".", "3", " ",
      "{", NewlineChar, "l", "o", "g", " ", "i", NewlineChar, "}",
      NewlineChar>>

\* for i 0..1 log i\n
ForSource ==
    <<"f", "o", "r", " ", "i", " ", "0", ".", ".", "1", " ", "l", "o", "g",
      " ", "i", NewlineChar>>

\* var x = 1\n
DeclareSource ==
    <<"v", "a", "r", " ", "x", " ", "=", " ", "1", NewlineChar>>

\* log x\n
LogSource ==
    <<"l", "o", "g", " ", "x", NewlineChar>>

\* { var x = 2\nx = x + 1\n}\n
BlockSource ==
    <<"{", " ", "v", "a", "r", " ", "x", " ", "=", " ", "2", NewlineChar,
      "x", " ", "=", " ", "x", " ", "+", " ", "1", NewlineChar, "}",
      NewlineChar>>

\* log #\n
UnexpectedSource ==
    <<"l", "o", "g", " ", "#", NewlineChar>>

\* x = x + 1; log x\n
IncrementSource ==
    <<"x", " ", "=", " ", "x", " ", "+", " ", "1", ";", " ", "l", "o", "g", " ",
      "x", NewlineChar>>

\* var y = 1\nlog y\n#\n
ScanFaultSource ==
    <<"v", "a", "r", " ", "y", " ", "=", " ", "1", NewlineChar,
      "l", "o", "g", " ", "y", NewlineChar, "#", NewlineChar>>

\* var y = 1\nlog y\n)\n
ParseFaultSource ==
    <<"v", "a", "r", " ", "y", " ", "=", " ", "1", NewlineChar,
      "l", "o", "g", " ", "y", NewlineChar, ")", NewlineChar>>

\* for i 0..1 log y\n
ForFaultSource ==
    <<"f", "o", "r", " ", "i", " ", "0", ".", ".", "1", " ", "l", "o", "g",
      " ", "y", NewlineChar>>

\* the texts with a character no token starts with, or a token no statement
\* starts with
FaultySources == {UnexpectedSource, ScanFaultSource, ParseFaultSource}

RunSources ==
    {ForInSource, ForInLinesSource, ForSource,
     DeclareSource, LogSource, BlockSource,
     IncrementSource, ForFaultSource} \cup FaultySources

\* the characters of the texts scan is run on
ScanAlphabet == {Quote, "a", "1", ".", "/", "*", NewlineChar, " "}

\* number texts with other digits and with a second fraction
NumberSources ==
    { <<"1", "2", ".", "5", "0">>,
      <<"0", ".", "5">>,
      <<"1", ".", "0", ".", "5">>,
      <<"1", ".", "5", ".", "5">>,
      <<"1", "2", " ", ".", "5">> }

ScanSources == SeqsUpTo(ScanAlphabet, MaxSourceLen) \cup NumberSources

\* the tokens of the sequences parse is run on; each ends with Eof, as the
\* sequences scan returns do
ParseAlphabet ==
    {Tok("Var"), X, Tok("Equal"), NumberTok(Num(1)), Tok("Log"), Tok("Newline"),
     Tok("Semicolon"), Tok("Else")}

\* the operators of the binary levels of the expression grammar, outermost
\* level first (the type lists of the cmp! of or, and, equality, comparison,
\* term, factor and range), and the prefix operators (those of unary)
LevelOperators ==
    <<{"Or", "Xor"}, {"And"}, {"BangEqual", "EqualEqual"},
      {"Greater", "GreaterEqual", "Less", "LessEqual"},
      {"Minus", "Plus"}, {"Slash", "Star"}, {"Range"}>>

PrefixOperators == {"Bang", "Minus"}

ExprOperands == {X, NumberTok(Num(1))}

\* the expressions parse is run on: every sequence of MaxExprTokens tokens
\* at most made of the two operands and the operators of one level, or the
\* prefix operators
ExprAlphabets ==
    {ExprOperands \cup {Tok(k) : k \in LevelOperators[l]} : l \in DOMAIN LevelOperators}
        \cup {ExprOperands \cup {Tok(k) : k \in PrefixOperators}}

ExprInputs == UNION {SeqsUpTo(A, MaxExprTokens) : A \in ExprAlphabets}

\* `{ }` blocks of up to two statements, each on its own line, with up to
\* MaxBlankLines blank lines at the start and after each statement
Newlines(n) == [i \in 1..n |-> Tok("Newline")]

BlockLines ==
    {<<Tok("Log"), NumberTok(Num(1))>>, <<X>>, <<Tok("Var"), X>>}

BlockBodies ==
    {<<>>}
        \cup {l \o Newlines(1 + b) : l \in BlockLines, b \in 0..MaxBlankLines}
        \cup {l1 \o Newlines(1 + b) \o l2 \o Newlines(1 + c) :
                 l1 \in BlockLines, l2 \in BlockLines,
                 b \in 0..MaxBlankLines, c \in 0..MaxBlankLines}

BlockInputs ==
    {<<Tok("LeftBrace")>> \o Newlines(a) \o body \o <<Tok("RightBrace")>> :
        a \in 0..MaxBlankLines, body \in BlockBodies}

\* `target = value`: the targets that are no bare variable, one of each shape
InvalidTargets ==
    { <<NumberTok(Num(1))>>,
      <<StringTok(<<"a">>)>>,
      <<Tok("LeftParen"), X, Tok("RightParen")>>,
      <<Tok("Minus"), X>>,
      <<Tok("Bang"), X>>,
      <<X, Tok("Plus"), NumberTok(Num(1))>>,
      <<X, Tok("EqualEqual"), Y>>,
      <<X, Tok("Range"), Y>>,
      <<X, Tok("Or"), Y>>,
      <<X, Tok("And"), Y>> }

AssignValues ==
    {<<NumberTok(Num(1))>>, <<Y>>, <<Y, Tok("Equal"), NumberTok(Num(1))>>,
     <<X, Tok("Plus"), NumberTok(Num(1))>>}

AssignInputs ==
    {target \o <<Tok("Equal")>> \o value :
        target \in InvalidTargets \cup {<<X>>, <<Y>>}, value \in AssignValues}

\* `for [name] n .. m [newline] log x [newline]`
ForOperands == {X, Y, NumberTok(Num(0)), NumberTok(Num(1))}

ForInputs ==
    {<<Tok("For")>> \o name \o <<n, Tok("Range"), m>> \o Newlines(a)
                   \o <<Tok("Log"), X>> \o Newlines(b) :
        name \in {<<>>, <<X>>, <<Y>>}, n \in ForOperands, m \in ForOperands,
        a \in 0..1, b \in 0..1}

ParseInputs ==
    {Append(ts, Tok("Eof")) :
        ts \in SeqsUpTo(ParseAlphabet, MaxTokens) \cup ExprInputs \cup BlockInputs
                  \cup AssignInputs \cup ForInputs}

----------------------------------------------------------------------------
(* scan alone, on every text over ScanAlphabet of MaxSourceLen characters   *)
(* at most.                                                                 *)

InitScan ==
    /\ pc = "scan"
    /\ source \in ScanSources
    /\ scanned = NotRun
    /\ parsed = NotRun
    /\ env = EnvironmentNew
    /\ output = <<>>
    /\ trace = <<>>
    /\ result = NotRun
    /\ runs = 0

ScanSource ==
    /\ pc = "scan"
    /\ scanned' = Scan(source)
    /\ pc' = "scanned"
    /\ UNCHANGED <<source, parsed, env, output, trace, result, runs>>

NextScan == ScanSource

SpecScan == InitScan /\ [][NextScan]_vars

----------------------------------------------------------------------------
(* parse alone, on every sequence of MaxTokens tokens at most over          *)
(* ParseAlphabet and on every expression of ExprInputs, followed by Eof.    *)

InitParse ==
    /\ pc = "parse"
    /\ source = <<>>
    /\ scanned \in {OkTokens(ts) : ts \in ParseInputs}
    /\ parsed = NotRun
    /\ env = EnvironmentNew
    /\ output = <<>>
    /\ trace = <<>>
    /\ result = NotRun
    /\ runs = 0

ParseTokens ==
    /\ pc = "parse"
    /\ parsed' = parse(scanned.tokens)
    /\ pc' = "parsed"
    /\ UNCHANGED <<source, scanned, env, output, trace, result, runs>>

NextParse == ParseTokens

SpecParse == InitParse /\ [][NextParse]_vars

----------------------------------------------------------------------------
(* A sequence of run calls on one Interpreter (run_prompt, or run_file for  *)
(* a single call): MaxRuns calls at most, each on one of RunSources.  A     *)
(* call that aborts the process or does not return ends the sequence.       *)

InitRun ==
    /\ pc = "prompt"
    /\ source = <<>>
    /\ scanned = NotRun
    /\ parsed = NotRun
    /\ env = EnvironmentNew
    /\ output = <<>>
    /\ trace = <<>>
    /\ result = NotRun
    /\ runs = 0

\* the call run(src, interpreter) has returned r
Returns(src, r) ==
    /\ source' = src
    /\ scanned' = r.scanned
    /\ parsed' = r.parsed
    /\ env' = r.final.env
    /\ output' = r.final.out
    /\ trace' = r.final.trace
    /\ result' = [st |-> r.final.st, err |-> r.final.err]
    /\ pc' = IF r.final.st \in {"Panic", "Diverged"} THEN "aborted" ELSE "prompt"

Run ==
    /\ pc = "prompt"
    /\ runs < MaxRuns
    /\ \E src \in RunSources : Returns(src, run(src, State(env, output, <<>>, MaxSteps)))
    /\ runs' = runs + 1

NextRun == Run

SpecRun == InitRun /\ [][NextRun]_vars

----------------------------------------------------------------------------
(* Reading the trace of an interpret call. *)

Finished == pc = "done" /\ result.st \in {"Ok", "Err"}

Parent(path) == SubSeq(path, 1, Len(path) - 1)

ChildStmt(stmt, k) ==
    CASE stmt.type = "Block" -> stmt.stmts[k]
      [] stmt.type = "If" -> IF k = 1 THEN stmt.thenBranch ELSE stmt.elseBranch[1]
      [] OTHER -> stmt.body

RECURSIVE Descend(_, _, _)
Descend(stmt, path, k) ==
    IF k > Len(path) THEN stmt ELSE Descend(ChildStmt(stmt, path[k]), path, k + 1)

\* the statement of the interpreted program at a path of the trace
StmtAt(path) == Descend(parsed.stmts[path[1]], path, 2)

IsEnter(i) == trace[i].ev = "enter"

IsExit(i) == trace[i].ev = "exit"

\* the enter event of the execute call that returns at event j
EnterOf(j) ==
    CHOOSE i \in 1..(j - 1) :
        /\ IsEnter(i) /\ trace[i].path = trace[j].path
        /\ \A k \in (i + 1)..(j - 1) : ~(IsEnter(k) /\ trace[k].path = trace[j].path)

\* the last enter event before i of the statement at path p
LastEnter(p, i) ==
    CHOOSE b \in 1..(i - 1) :
        /\ IsEnter(b) /\ trace[b].path = p
        /\ \A k \in (b + 1)..(i - 1) : ~(IsEnter(k) /\ trace[k].path = p)

\* the exit events after i of the statement at path p, up to its first
ExitsAfter(p, i) ==
    {j \in (i + 1)..Len(trace) :
        /\ IsExit(j) /\ trace[j].path = p
        /\ \A k \in (i + 1)..(j - 1) : ~(IsExit(k) /\ trace[k].path = p)}

InBlock(path) == Len(path) > 1 /\ StmtAt(Parent(path)).type = "Block"

Lookup(e, key) == Find(e, key, Len(e))

\* which names each scope of a chain binds
ScopeShape(e) == [k \in 1..Len(e) |-> DOMAIN e[k]]

\* what the scopes of a chain up to a depth bind a name to
Bindings(e, depth, key) ==
    [k \in 1..depth |-> IF key \in DOMAIN e[k] THEN <<e[k][key]>> ELSE <<>>]

----------------------------------------------------------------------------
(* C1: when a statement inside a Block returns an error, the block stops   *)
(* there: the next thing that happens is the block returning that error    *)
(* (no later statement of the block is entered), and a top-level block     *)
(* makes interpret return it.  Stated for every position in the block.     *)

C1_BlockStopsAtFirstError ==
    Finished =>
        \A i \in 1..Len(trace) :
            (IsExit(i) /\ trace[i].st = "Err" /\ InBlock(trace[i].path)) =>
                /\ i < Len(trace)
                /\ IsExit(i + 1)
                /\ trace[i + 1].path = Parent(trace[i].path)
                /\ trace[i + 1].st = "Err"
                /\ trace[i + 1].err = trace[i].err
                /\ (Len(trace[i].path) = 2 => result = [st |-> "Err", err |-> trace[i].err])

(* C2: when execute of a Block or a For returns, with Ok or with Err, the  *)
(* current environment is the chain that was current when it was entered:  *)
(* same depth, and the same names bound in every scope of it.               *)

C2_ScopeRestoredOnReturn ==
    Finished =>
        \A j \in 1..Len(trace) :
            (IsExit(j) /\ trace[j].type \in {"Block", "For"}
                       /\ trace[j].st \in {"Ok", "Err"}) =>
                ScopeShape(trace[j].env) = ScopeShape(trace[EnterOf(j)].env)

(* C3: a For over Range(start, end) with integers start < end whose body   *)
(* does not assign or declare the loop variable executes its body exactly   *)
(* end - start times, the loop variable being start, start+1, ..., end-1.   *)

RECURSIVE ExprTouches(_, _)
ExprTouches(expr, key) ==
    CASE expr.type = "Assign" ->
            TokenToString(expr.name) = key \/ ExprTouches(expr.value, key)
      [] expr.type = "Grouping" -> ExprTouches(expr.e, key)
      [] expr.type = "Unary" -> ExprTouches(expr.right, key)
      [] expr.type \in {"Binary", "Logical"} ->
            ExprTouches(expr.left, key) \/ ExprTouches(expr.right, key)
      [] OTHER -> FALSE

RECURSIVE Touches(_, _)
Touches(stmt, key) ==
    CASE stmt.type \in {"Expression", "Log"} -> ExprTouches(stmt.e, key)
      [] stmt.type = "Declaration" ->
            \/ TokenToString(stmt.name) = key
            \/ (stmt.initializer # <<>> /\ ExprTouches(stmt.initializer[1], key))
      [] stmt.type = "Block" ->
            \E k \in 1..Len(stmt.stmts) : Touches(stmt.stmts[k], key)
      [] stmt.type = "If" ->
            \/ ExprTouches(stmt.condition, key)
            \/ Touches(stmt.thenBranch, key)
            \/ (stmt.elseBranch # <<>> /\ Touches(stmt.elseBranch[1], key))
      [] stmt.type = "While" ->
            ExprTouches(stmt.condition, key) \/ Touches(stmt.body, key)
      [] stmt.type = "For" ->
            \/ TokenToString(Actual(stmt)) = key
            \/ ExprTouches(stmt.iterable, key)
            \/ Touches(stmt.body, key)
      [] OTHER -> FALSE

IsIntLiteral(expr) ==
    expr.type = "Literal" /\ expr.token.kind = "Number" /\ expr.token.n.e = 0

\* a For over start..end, both integer literals, start < end, whose body
\* leaves the loop variable alone
CountingFor(stmt) ==
    /\ stmt.type = "For"
    /\ stmt.iterable.type = "Binary" /\ stmt.iterable.op.kind = "Range"
    /\ IsIntLiteral(stmt.iterable.left) /\ IsIntLiteral(stmt.iterable.right)
    /\ stmt.iterable.left.token.n.m < stmt.iterable.right.token.n.m
    /\ ~Touches(stmt.body, TokenToString(Actual(stmt)))

\* the values the loop variable has each time the body of the For entered at
\* event i (and returning at event j) is entered
BodyValues(i, j) ==
    LET stmt == StmtAt(trace[i].path)
        IsBodyEnter(ev) == ev.ev = "enter" /\ ev.path = Append(trace[i].path, 1)
        enters == SelectSeq(SubSeq(trace, i + 1, j - 1), IsBodyEnter)
    IN [n \in 1..Len(enters) |-> Get(enters[n].env, Actual(stmt)).val]

C3_ForRunsBodyEndMinusStartTimes ==
    Finished =>
        \A j \in 1..Len(trace) :
            (IsExit(j) /\ trace[j].type = "For" /\ trace[j].st = "Ok"
                       /\ CountingFor(StmtAt(trace[j].path))) =>
                LET start == StmtAt(trace[j].path).iterable.left.token.n.m
                    end   == StmtAt(trace[j].path).iterable.right.token.n.m
                IN BodyValues(EnterOf(j), j)
                       = [n \in 1..(end - start) |-> VNumber(Num(start + n - 1))]

(* C4: `==` and `!=` applied to operands of different Value variants       *)
(* return an error, never a Boolean.                                        *)

C4_CrossVariantEqualityIsError ==
    \A i \in 1..Len(trace) :
        (/\ trace[i].ev = "op" /\ trace[i].type = "Binary"
         /\ trace[i].op \in {"EqualEqual", "BangEqual"}
         /\ trace[i].left.kind # trace[i].right.kind) =>
            trace[i].st = "Err"

(* C6: a Declaration executed inside a Block binds its name in the current *)
(* (innermost) scope only and leaves every enclosing scope as it was; until *)
(* the block returns the name resolves to a scope of the block, and a read  *)
(* of it yields that scope's value; when the block returns, the enclosing   *)
(* scopes bind the name exactly as they did before the declaration (not at  *)
(* all, if they did not).  `var x = 5 { var x = 10; log x } log x` prints   *)
(* 10 then 5.                                                               *)

\* the value a declaration with no or a literal initializer binds
Declared(stmt) ==
    IF stmt.initializer = <<>> THEN VNull ELSE ValueFrom(stmt.initializer[1].token)

PlainDeclaration(stmt) ==
    /\ stmt.type = "Declaration"
    /\ (stmt.initializer # <<>> => stmt.initializer[1].type = "Literal")

IsRead(stmt, key) ==
    /\ stmt.type \in {"Log", "Expression"}
    /\ stmt.e.type = "Variable"
    /\ TokenToString(stmt.e.name) = key

C6_BlockDeclarationIsLocal ==
    /\ (pc = "done" /\ parsed.stmts = ShadowExample) =>
            /\ result.st = "Ok"
            /\ output = << <<"1", "0">>, <<"5">> >>
    /\ Finished =>
        \A j \in 1..Len(trace) :
            (/\ IsExit(j) /\ trace[j].st = "Ok"
             /\ InBlock(trace[j].path)
             /\ PlainDeclaration(StmtAt(trace[j].path))) =>
                LET stmt  == StmtAt(trace[j].path)
                    key   == TokenToString(stmt.name)
                    i     == EnterOf(j)
                    blk == Parent(trace[j].path)
                    outer == Len(trace[LastEnter(blk, i)].env)
                    before == trace[i].env
                    after == trace[j].env
                IN /\ Len(after) = Len(before)
                   /\ key \in DOMAIN after[Len(after)]
                   /\ after[Len(after)][key] = Declared(stmt)
                   /\ Previous(after, Len(after) - 1) = Previous(before, Len(before) - 1)
                   /\ \A b \in ExitsAfter(blk, j) :
                        /\ \A k \in (j + 1)..(b - 1) :
                            (IsEnter(k) \/ IsExit(k)) =>
                                /\ Lookup(trace[k].env, key) > outer
                                /\ (IsExit(k) /\ trace[k].st = "Ok"
                                        /\ IsRead(StmtAt(trace[k].path), key)) =>
                                      trace[k].val
                                        = trace[k].env[Lookup(trace[k].env, key)][key]
                        /\ Len(trace[b].env) = outer
                        /\ Bindings(trace[b].env, outer, key) = Bindings(before, outer, key)

\* the shadowing example has run
C6_Witness ==
    /\ pc = "done"
    /\ parsed.stmts = ShadowExample
    /\ Len(output) = 2

(* C7: assigning to a name no scope of the chain defines returns the       *)
(* undefined-variable error and leaves the chain as it was (no binding is   *)
(* created); reading a name bound to Null returns the use-before-assignment *)
(* error, which is another error than the undefined-variable error that     *)
(* reading a name bound nowhere returns.                                    *)

IsLiteralAssign(stmt) ==
    /\ stmt.type = "Expression"
    /\ stmt.e.type = "Assign"
    /\ stmt.e.value.type = "Literal"

IsVariableRead(stmt) ==
    /\ stmt.type \in {"Log", "Expression"}
    /\ stmt.e.type = "Variable"

C7_UndefinedAndUnassignedErrors ==
    /\ UseBeforeAssignment # UndefinedVariable
    /\ \A j \in 1..Len(trace) :
        IsExit(j) =>
            LET stmt   == StmtAt(trace[j].path)
                before == trace[EnterOf(j)].env
            IN /\ (IsLiteralAssign(stmt)
                     /\ Lookup(before, TokenToString(stmt.e.name)) = 0) =>
                      /\ trace[j].st = "Err"
                      /\ trace[j].err = Error(UndefinedVariable, TokenToString(stmt.e.name))
                      /\ trace[j].env = before
               /\ IsVariableRead(stmt) =>
                    LET key == TokenToString(stmt.e.name)
                        k   == Lookup(before, key)
                    IN /\ k = 0 =>
                            /\ trace[j].st = "Err"
                            /\ trace[j].err = Error(UndefinedVariable, key)
                       /\ (k > 0 /\ before[k][key] = VNull) =>
                            /\ trace[j].st = "Err"
                            /\ trace[j].err = Error(UseBeforeAssignment, key)

\* one run holds an assignment to an undefined name and a read of a name
\* bound to Null, each returning its error
C7_Witness ==
    /\ pc = "done"
    /\ \E j \in 1..Len(trace) :
        /\ IsExit(j) /\ IsLiteralAssign(StmtAt(trace[j].path))
        /\ trace[j].err.msg = UndefinedVariable
    /\ \E j \in 1..Len(trace) :
        /\ IsExit(j) /\ IsVariableRead(StmtAt(trace[j].path))
        /\ trace[j].err.msg = UseBeforeAssignment

----------------------------------------------------------------------------
(* C5: run on the source text `for i in 0..3 { log i }` succeeds, with i as *)
(* the bound loop variable and 0..3 as the iterable, and its output is      *)
(* exactly the three lines 0, 1, 2.                                         *)

I == IdentifierTok(<<"i">>)

ForInStatement == For(<<I>>, RangeOf(0, 3), Block(<<Log(Variable(I))>>))

C5_ForInExampleRuns ==
    [][(runs' = runs + 1 /\ source' = ForInSource) =>
            /\ scanned'.st = "Ok"
            /\ parsed' = OkStmts(<<ForInStatement>>)
            /\ result'.st = "Ok"
            /\ output' = output \o << <<"0">>, <<"1">>, <<"2">> >>]_vars

----------------------------------------------------------------------------
(* C8: when the source has an opening `"` and the input ends before a       *)
(* closing `"`, scan returns the "Unterminated string" error and no tokens; *)
(* a String token is produced only for a literal that has its closing       *)
(* quote.  Stated on the texts without `/` (no comments): there the quotes  *)
(* pair up from the left, so an odd number of them leaves the last one      *)
(* open; and on those whose part before that quote scans without error.     *)

Quotes(s) == {i \in DOMAIN s : s[i] = Quote}

LastQuote(s) == CHOOSE i \in Quotes(s) : \A j \in Quotes(s) : j <= i

Strings(tokens) == {i \in DOMAIN tokens : tokens[i].kind = "String"}

C8_UnterminatedStringIsError ==
    (pc = "scanned" /\ \A i \in DOMAIN source : source[i] # "/") =>
        /\ (/\ Cardinality(Quotes(source)) % 2 = 1
            /\ Scan(SubSeq(source, 1, LastQuote(source) - 1)).st = "Ok") =>
                /\ scanned.st = "Err"
                /\ scanned.err.msg = "Unterminated string"
                /\ scanned.tokens = <<>>
        /\ scanned.st = "Ok" =>
                2 * Cardinality(Strings(scanned.tokens)) <= Cardinality(Quotes(source))

----------------------------------------------------------------------------
(* C9: a variable declaration or a log statement directly followed by Eof   *)
(* (no newline and no `;` after it) parses successfully.  Stated on the     *)
(* token sequences that are one such statement and Eof.                     *)

Operand(t) == t.kind \in {"Number", "Identifier"}

DeclarationThenEof(ts) ==
    /\ Len(ts) \in {3, 5}
    /\ ts[1].kind = "Var"
    /\ ts[2].kind = "Identifier"
    /\ Len(ts) = 5 => (ts[3].kind = "Equal" /\ Operand(ts[4]))

LogThenEof(ts) == Len(ts) = 3 /\ ts[1].kind = "Log" /\ Operand(ts[2])

C9_EofTerminatesStatement ==
    (pc = "parsed"
        /\ (DeclarationThenEof(scanned.tokens) \/ LogThenEof(scanned.tokens))) =>
            /\ parsed.st = "Ok"
            /\ Len(parsed.stmts) = 1
            /\ parsed.stmts[1].type
                   = IF scanned.tokens[1].kind = "Var" THEN "Declaration" ELSE "Log"

----------------------------------------------------------------------------
(* C10: an expression statement whose expression is followed by a token     *)
(* that is neither a statement terminator (newline, `;`, Eof) nor `else` is *)
(* rejected by parse; two expression statements separated by nothing (the   *)
(* tokens `1 2`) are never accepted.  Stated on the sequences that begin    *)
(* with an operand followed by a token that neither ends the statement nor  *)
(* continues the expression.                                                *)

Terminators == {"Newline", "Semicolon", "Eof"}

\* the tokens an expression goes on with after an operand
Continuations ==
    {"Equal", "Or", "Xor", "And", "BangEqual", "EqualEqual", "Greater",
     "GreaterEqual", "Less", "LessEqual", "Minus", "Plus", "Slash", "Star", "Range"}

C10_ExpressionStatementNeedsTerminator ==
    (pc = "parsed"
        /\ Len(scanned.tokens) >= 2
        /\ Operand(scanned.tokens[1])
        /\ scanned.tokens[2].kind \notin Terminators \cup {"Else"} \cup Continuations) =>
            /\ parsed.st = "Err"
            /\ parsed.stmts = <<>>

----------------------------------------------------------------------------
(* C11: for every sequence of prefix operators `!` and `-` in front of a    *)
(* primary, parse builds exactly one Unary node per operator token, nested  *)
(* in source order (`!-x` is Unary(!, Unary(-, x))); no prefix operator     *)
(* token is consumed without appearing in the tree.  Stated on the token    *)
(* sequences that are prefix operators, one operand and Eof.                *)

\* the expression a lone operand token is
OperandExpr(t) == IF t.kind = "Identifier" THEN Variable(t) ELSE Literal(t)

Prefixed(ts) ==
    /\ Len(ts) >= 3
    /\ Operand(ts[Len(ts) - 1])
    /\ \A i \in 1..(Len(ts) - 2) : ts[i].kind \in PrefixOperators

RECURSIVE Nested(_, _)
Nested(ops, e) ==
    IF ops = <<>> THEN e ELSE Unary(Head(ops), Nested(Tail(ops), e))

C11_OneUnaryPerPrefixOperator ==
    (pc = "parsed" /\ Prefixed(scanned.tokens)) =>
        LET ts == scanned.tokens
        IN parsed = OkStmts(<<Expression(Nested(SubSeq(ts, 1, Len(ts) - 2),
                                                OperandExpr(ts[Len(ts) - 1])))>>)

----------------------------------------------------------------------------
(* C12: each binary level folds to the left and each operator token that    *)
(* is consumed becomes exactly one node: `1 - 2 - 3` is                     *)
(* Binary(Binary(1, -, 2), -, 3); two adjacent operators of one level with  *)
(* no operand between them (`1 - + 2`, `a > < b`, `a or xor b`) are a parse *)
(* error.  A second operator that is the prefix `-` starts an operand       *)
(* (`1 + - 2`) and is not such a pair.                                      *)

SameLevel(k1, k2) ==
    \E l \in DOMAIN LevelOperators : {k1, k2} \subseteq LevelOperators[l]

\* the node a binary level builds: Logical for or/xor/and, Binary otherwise
Node(left, op, right) ==
    IF op.kind \in {"Or", "Xor", "And"} THEN Logical(left, op, right)
    ELSE Binary(left, op, right)

\* operand (operator operand)+ Eof, the operators of one level
Chain(ts) ==
    /\ Len(ts) >= 4
    /\ Len(ts) % 2 = 0
    /\ \A i \in 1..(Len(ts) - 1) :
          IF i % 2 = 1 THEN Operand(ts[i]) ELSE SameLevel(ts[2].kind, ts[i].kind)

RECURSIVE LeftFold(_, _, _)
LeftFold(ts, k, acc) ==
    IF k >= Len(ts) THEN acc
    ELSE LeftFold(ts, k + 2, Node(acc, ts[k], OperandExpr(ts[k + 1])))

\* operand operator operator operand Eof, the operators of one level
AdjacentOperators(ts) ==
    /\ Len(ts) = 5
    /\ Operand(ts[1]) /\ Operand(ts[4])
    /\ SameLevel(ts[2].kind, ts[3].kind)
    /\ ts[3].kind \notin PrefixOperators

C12_LevelsFoldLeftOneNodePerOperator ==
    pc = "parsed" =>
        LET ts == scanned.tokens
        IN /\ Chain(ts) =>
                parsed = OkStmts(<<Expression(LeftFold(ts, 2, OperandExpr(ts[1])))>>)
           /\ AdjacentOperators(ts) => parsed.st = "Err"

\* the first half alone: the code does fold to the left
C12_LevelsFoldLeft ==
    (pc = "parsed" /\ Chain(scanned.tokens)) =>
        parsed = OkStmts(<<Expression(LeftFold(scanned.tokens, 2,
                                               OperandExpr(scanned.tokens[1])))>>)

----------------------------------------------------------------------------
(* C13: interpret executes the top-level statements in order; at the first  *)
(* statement that returns an error it returns that error and executes no    *)
(* later statement; what the earlier statements printed, defined and        *)
(* assigned stays: the output and the environment are the ones the failing  *)
(* statement left, and every output a statement returned with is still a    *)
(* prefix of the final output.                                              *)

TopLevel(i) == Len(trace[i].path) = 1

TopEnters == {i \in DOMAIN trace : IsEnter(i) /\ TopLevel(i)}

TopExits == {i \in DOMAIN trace : IsExit(i) /\ TopLevel(i)}

IsPrefix(s, t) == Len(s) <= Len(t) /\ SubSeq(t, 1, Len(s)) = s

C13_InterpretStopsAtFirstError ==
    Finished =>
        /\ {trace[i].path[1] : i \in TopEnters} = 1..Cardinality(TopEnters)
        /\ \A i, j \in TopEnters : i < j => trace[i].path[1] < trace[j].path[1]
        /\ result.st = "Ok" =>
              /\ Cardinality(TopEnters) = Len(parsed.stmts)
              /\ \A i \in TopExits : trace[i].st = "Ok"
        /\ result.st = "Err" =>
              /\ trace # <<>>
              /\ Len(trace) \in TopExits
              /\ trace[Len(trace)].st = "Err"
        /\ \A i \in TopExits :
              /\ IsPrefix(trace[i].out, output)
              /\ trace[i].st = "Err" =>
                    /\ i = Len(trace)
                    /\ result = [st |-> "Err", err |-> trace[i].err]
                    /\ env = trace[i].env
                    /\ output = trace[i].out

\* a statement failed after a declaration and a log took effect, and a
\* statement after it was never entered
C13_Witness ==
    /\ Finished
    /\ result.st = "Err"
    /\ Cardinality(TopEnters) < Len(parsed.stmts)
    /\ output # <<>>
    /\ env # EnvironmentNew
    /\ \E i \in TopExits : i < Len(trace) /\ trace[i].out # <<>>

----------------------------------------------------------------------------
(* C14: run scans the whole text, then parses the whole token sequence,     *)
(* then evaluates.  Every text with a fault is rejected by scan or by       *)
(* parse, and whenever scan or parse fails run returns that error and the   *)
(* evaluator executes nothing: no statement is entered, nothing is printed  *)
(* and the environment is unchanged, even when the statements before the    *)
(* fault are well formed.                                                   *)

Rejected(scanned_, parsed_) ==
    \/ scanned_.st = "Err" /\ parsed_ = NotRun
    \/ scanned_.st = "Ok" /\ parsed_.st = "Err"

RejectedWith(scanned_, parsed_) ==
    IF scanned_.st = "Err" THEN scanned_.err ELSE parsed_.err

C14_ScanOrParseErrorRunsNothing ==
    [][runs' = runs + 1 =>
          /\ source' \in FaultySources => Rejected(scanned', parsed')
          /\ Rejected(scanned', parsed') =>
                /\ result' = [st |-> "Err", err |-> RejectedWith(scanned', parsed')]
                /\ trace' = <<>>
                /\ output' = output
                /\ env' = env]_vars

\* after a run that declared x, the text whose first two statements are well
\* formed was rejected by parse: y is not declared and nothing was printed
C14_Witness ==
    /\ runs >= 2
    /\ source = ParseFaultSource
    /\ scanned.st = "Ok" /\ parsed.st = "Err"
    /\ result.st = "Err"
    /\ DOMAIN env[1] = {<<"x">>}
    /\ output = <<>>

----------------------------------------------------------------------------
(* SpecEnv: calls of define, assign and get on the innermost Environment of *)
(* a scope chain.  Init draws the chain: up to MaxScopes scopes, each       *)
(* binding some of the names x and y to a value.                            *)

EnvNames == {X, Y}

EnvValues == {VNumber(Num(1)), VNull}

EnvKeys == {TokenToString(n) : n \in EnvNames}

Scopes == UNION {[keys -> EnvValues] : keys \in SUBSET EnvKeys}

Chains == UNION {[1..n -> Scopes] : n \in 1..MaxScopes}

InitEnv ==
    /\ pc = "env"
    /\ source = <<>>
    /\ scanned = NotRun
    /\ parsed = NotRun
    /\ env \in Chains
    /\ output = <<>>
    /\ trace = <<>>
    /\ result = NotRun
    /\ runs = 0

\* the call `op` with these arguments returned on the chain env_, with val
Called(op, name, value, env_, ok, val, err) ==
    /\ pc = "env"
    /\ trace' = <<[ev |-> "call", op |-> op, name |-> name, value |-> value,
                   env |-> env, val |-> val]>>
    /\ env' = env_
    /\ result' = [st |-> IF ok THEN "Ok" ELSE "Err", err |-> err]
    /\ UNCHANGED <<pc, source, scanned, parsed, output, runs>>

CallDefine ==
    \E name \in EnvNames, value \in EnvValues :
        Called("define", name, value, Define(env, name, value), TRUE, VNull, NoError)

CallAssign ==
    \E name \in EnvNames, value \in EnvValues :
        Bind(AssignEnv(env, name, value), LAMBDA r :
             Called("assign", name, value, r.env, r.ok, VNull, r.err))

CallGet ==
    \E name \in EnvNames :
        Bind(Get(env, name), LAMBDA r :
             Called("get", name, VNull, env, r.ok, r.val, r.err))

NextEnv == CallDefine \/ CallAssign \/ CallGet

SpecEnv == InitEnv /\ [][NextEnv]_vars

----------------------------------------------------------------------------
(* C15: define(name, value) changes only the innermost scope, and there     *)
(* only the entry of name: it inserts the binding or overwrites the one the *)
(* scope has; every enclosing scope is unchanged, also when it binds the    *)
(* same name.                                                               *)

LastCall == trace[1]

CalledOp(op) == trace # <<>> /\ LastCall.op = op

CallKey == TokenToString(LastCall.name)

C15_DefineChangesInnermostScopeOnly ==
    CalledOp("define") =>
        LET before == LastCall.env
            n == Len(before)
        IN /\ Len(env) = n
           /\ \A k \in 1..(n - 1) : env[k] = before[k]
           /\ DOMAIN env[n] = DOMAIN before[n] \cup {CallKey}
           /\ env[n][CallKey] = LastCall.value
           /\ \A key \in DOMAIN before[n] \ {CallKey} : env[n][key] = before[n][key]
           /\ result.st = "Ok"

\* a define of a name that the innermost scope and an enclosing scope both
\* bound to another value
C15_Witness ==
    /\ CalledOp("define")
    /\ Len(env) >= 2
    /\ CallKey \in DOMAIN LastCall.env[Len(env)]
    /\ LastCall.env[Len(env)][CallKey] # LastCall.value
    /\ \E k \in 1..(Len(env) - 1) :
          /\ CallKey \in DOMAIN env[k]
          /\ env[k][CallKey] # LastCall.value

----------------------------------------------------------------------------
(* C16: assign updates the name in the innermost scope that defines it and  *)
(* changes nothing else; it never creates a binding; when no scope defines  *)
(* the name it returns the undefined-variable error and the chain is        *)
(* unchanged.  get returns the value of that same innermost defining scope  *)
(* and fails with the same error.                                           *)

Defining(chain, key) == {k \in 1..Len(chain) : key \in DOMAIN chain[k]}

Innermost(chain, key) ==
    CHOOSE k \in Defining(chain, key) : \A j \in Defining(chain, key) : j <= k

UndefinedError == [st |-> "Err", err |-> Error(UndefinedVariable, CallKey)]

C16_AssignAndGetUseInnermostDefiningScope ==
    LET before == LastCall.env
    IN /\ CalledOp("assign") =>
            /\ Len(env) = Len(before)
            /\ \A k \in 1..Len(env) : DOMAIN env[k] = DOMAIN before[k]
            /\ IF Defining(before, CallKey) = {}
               THEN result = UndefinedError /\ env = before
               ELSE /\ result.st = "Ok"
                    /\ env[Innermost(before, CallKey)][CallKey] = LastCall.value
                    /\ \A k \in 1..Len(env) : \A key \in DOMAIN env[k] :
                          (k # Innermost(before, CallKey) \/ key # CallKey)
                              => env[k][key] = before[k][key]
       /\ CalledOp("get") =>
            /\ env = before
            /\ IF Defining(before, CallKey) = {}
               THEN result = UndefinedError
               ELSE /\ result.st = "Ok"
                    /\ LastCall.val = before[Innermost(before, CallKey)][CallKey]

\* an assign through an innermost scope that does not define the name, to a
\* scope that is not the outermost one defining it
C16_Witness ==
    /\ CalledOp("assign")
    /\ result.st = "Ok"
    /\ Len(env) = 3
    /\ Defining(LastCall.env, CallKey) = {1, 2}
    /\ LastCall.env[2][CallKey] # LastCall.value
    /\ env[1][CallKey] # LastCall.value

----------------------------------------------------------------------------
(* C17: an assignment made inside a Block, at any nesting depth of Blocks   *)
(* and of While and For bodies, to a variable declared in an enclosing      *)
(* scope is visible after all those blocks have exited: the scope that      *)
(* defines the name keeps the assigned value in every later statement, as   *)
(* long as that scope is alive and no later statement writes the name.      *)
(* (A For's own variable is left out: the loop itself increments it.)       *)

StmtEvents == {i \in DOMAIN trace : IsEnter(i) \/ IsExit(i)}

IsAssignment(stmt) == stmt.type = "Expression" /\ stmt.e.type = "Assign"

\* the statement at path p is inside a For whose variable is key
LoopVariable(p, key) ==
    \E n \in 1..(Len(p) - 1) :
        LET s == StmtAt(SubSeq(p, 1, n))
        IN s.type = "For" /\ TokenToString(Actual(s)) = key

\* the event is of a statement that itself evaluates a write of key
Writes(k, key) ==
    LET s == StmtAt(trace[k].path)
    IN \/ s.type \in {"Expression", "Log", "Declaration"} /\ Touches(s, key)
       \/ s.type \in {"If", "While"} /\ ExprTouches(s.condition, key)
       \/ s.type = "For" /\ Touches(s, key)

\* the assignments that returned Ok inside a Block or a loop body
NestedAssignments ==
    {i \in StmtEvents :
        /\ IsExit(i) /\ trace[i].st = "Ok"
        /\ Len(trace[i].path) >= 2
        /\ IsAssignment(StmtAt(trace[i].path))
        /\ ~LoopVariable(trace[i].path, TokenToString(StmtAt(trace[i].path).e.name))}

\* from event i to event j scope d stays alive and nothing writes key
Undisturbed(i, j, key, d) ==
    \A k \in ((i + 1)..j) \cap StmtEvents :
        Len(trace[k].env) >= d /\ ~Writes(k, key)

C17_NestedAssignmentVisibleAfterBlocks ==
    Finished =>
        \A i \in NestedAssignments :
            LET key == TokenToString(StmtAt(trace[i].path).e.name)
                d == Lookup(trace[i].env, key)
            IN /\ d > 0
               /\ trace[i].env[d][key] = trace[i].val
               /\ \A j \in StmtEvents :
                     (j > i /\ Undisturbed(i, j, key, d)) =>
                         /\ key \in DOMAIN trace[j].env[d]
                         /\ trace[j].env[d][key] = trace[i].val

\* an assignment three scopes deep to a top-level variable, whose value a
\* top-level log prints once the blocks and the loop have exited
C17_Witness ==
    /\ Finished
    /\ \E i \in NestedAssignments : \E j \in StmtEvents :
          LET key == TokenToString(StmtAt(trace[i].path).e.name)
          IN /\ Len(trace[i].env) >= 3
             /\ Lookup(trace[i].env, key) = 1
             /\ j > i /\ Undisturbed(i, j, key, 1)
             /\ IsExit(j) /\ Len(trace[j].path) = 1 /\ trace[j].type = "Log"
             /\ trace[j].st = "Ok" /\ trace[j].val = trace[i].val
             /\ trace[EnterOf(i)].env[1][key] # trace[i].val

----------------------------------------------------------------------------
(* C18: `or` whose left operand is truthy returns Boolean(true) and `and`   *)
(* whose left operand is falsy returns Boolean(false) without evaluating    *)
(* the right operand: an assignment in it does not happen and an error in   *)
(* it is not raised.  `xor`, and `or`/`and` otherwise, evaluate the right   *)
(* operand in full: its assignment happens and its error is the result.     *)
(* Operands count by truthiness and an Ok result is always a Boolean.       *)
(* Stated on the expression statements `left op right` whose left operand   *)
(* is a literal or a variable holding a value.                              *)

\* the value of a literal or variable operand in a chain, if it has one
OperandValue(expr, chain) ==
    IF expr.type = "Literal" THEN <<ValueFrom(expr.token)>>
    ELSE LET key == TokenToString(expr.name)
             d == Lookup(chain, key)
         IN IF d = 0 \/ chain[d][key] = VNull THEN <<>> ELSE <<chain[d][key]>>

\* exits of the statements `left op right` whose left operand has a value
LogicalExits ==
    {j \in DOMAIN trace :
        /\ IsExit(j)
        /\ LET s == StmtAt(trace[j].path)
           IN /\ s.type = "Expression" /\ s.e.type = "Logical"
              /\ s.e.left.type \in {"Literal", "Variable"}
              /\ OperandValue(s.e.left, trace[EnterOf(j)].env) # <<>>}

Connective(kind, left, right) ==
    CASE kind = "Or" -> left \/ right
      [] kind = "And" -> left /\ right
      [] kind = "Xor" -> left # right

LeftDecides(kind, left) == (kind = "Or" /\ left) \/ (kind = "And" /\ ~left)

C18_LogicalShortCircuit ==
    Finished =>
        \A j \in LogicalExits :
            LET e == StmtAt(trace[j].path).e
                before == trace[EnterOf(j)].env
                left == IsTruthy(OperandValue(e.left, before)[1])
                right == Evaluate(State(before, <<>>, <<>>, MaxSteps), e.right)
            IN IF LeftDecides(e.op.kind, left)
               THEN /\ trace[j].st = "Ok"
                    /\ trace[j].val = VBoolean(e.op.kind = "Or")
                    /\ trace[j].env = before
               ELSE /\ trace[j].env = right.env
                    /\ trace[j].st = right.st
                    /\ right.st = "Err" => trace[j].err = right.err
                    /\ right.st = "Ok" =>
                          trace[j].val =
                              VBoolean(Connective(e.op.kind, left, IsTruthy(right.val)))

\* `or` after a truthy number skipped an assignment that would have changed
\* x, and skipped a read that would have failed
C18_Witness ==
    /\ Finished
    /\ \E j \in LogicalExits :
          LET e == StmtAt(trace[j].path).e
              before == trace[EnterOf(j)].env
              right == Evaluate(State(before, <<>>, <<>>, MaxSteps), e.right)
          IN /\ e.op.kind = "Or"
             /\ OperandValue(e.left, before)[1].kind = "Number"
             /\ trace[j].st = "Ok"
             /\ trace[j].env = before
             /\ right.st = "Err" \/ right.env # before

----------------------------------------------------------------------------
(* C19: at every point of any sequence of run calls on one Interpreter the  *)
(* scope chain has at most as many scopes above the top-level one as there  *)
(* are Block and For statements around the point, and between run calls it  *)
(* is the top-level scope alone, whether the call returned Ok or Err.       *)

\* the Block and For statements around the statement at path p
Enclosing(p) ==
    {n \in 1..(Len(p) - 1) : StmtAt(SubSeq(p, 1, n)).type \in {"Block", "For"}}

C19_ScopeDepthIsLexicalDepth ==
    /\ pc = "prompt" => Len(env) = 1
    /\ \A i \in DOMAIN trace :
          (IsEnter(i) \/ IsExit(i)) =>
              Len(trace[i].env) - 1 <= Cardinality(Enclosing(trace[i].path))

----------------------------------------------------------------------------
(* C20: a numeric literal is a run of digits optionally followed by exactly *)
(* one `.` and a run of digits, all adjacent, and scans to one Number token *)
(* with that value.  A further `.digits` group (`1.0.5`), or a `.digits`    *)
(* group separated from the literal by whitespace (`1 .5`), is not folded   *)
(* into the preceding Number: when scan returns tokens, the first is the    *)
(* Number of the literal alone.                                             *)

AllDigits(s) == s # <<>> /\ \A i \in DOMAIN s : s[i] \in Digits

HasDot(s) == \E i \in DOMAIN s : s[i] = "."

IsNumberLiteral(s) ==
    \E k \in 1..Len(s) :
        /\ AllDigits(SubSeq(s, 1, k))
        /\ \/ k = Len(s)
           \/ s[k + 1] = "." /\ AllDigits(SubSeq(s, k + 2, Len(s)))

\* s is a literal of k characters, then a `.digits` group that is a second
\* fraction or stands after a space
ExtraGroupAt(s, k) ==
    LET lit == SubSeq(s, 1, k)
        rest == SubSeq(s, k + 1, Len(s))
    IN /\ IsNumberLiteral(lit)
       /\ \/ HasDot(lit) /\ rest[1] = "." /\ AllDigits(Tail(rest))
          \/ /\ Len(rest) >= 3
             /\ rest[1] = " " /\ rest[2] = "."
             /\ AllDigits(SubSeq(rest, 3, Len(rest)))

ExtraGroups(s) == {k \in 1..(Len(s) - 2) : ExtraGroupAt(s, k)}

C20_NumberLiteralHasOneFraction ==
    pc = "scanned" =>
        /\ IsNumberLiteral(source) =>
              scanned = OkTokens(<<NumberTok(ParseF64(source)[1]), Tok("Eof")>>)
        /\ \A k \in ExtraGroups(source) :
              scanned.st = "Ok" =>
                  scanned.tokens[1] = NumberTok(ParseF64(SubSeq(source, 1, k))[1])

\* the first half alone: a literal scans to its value
C20_NumberLiteralScansToItsValue ==
    (pc = "scanned" /\ IsNumberLiteral(source)) =>
        scanned = OkTokens(<<NumberTok(ParseF64(source)[1]), Tok("Eof")>>)

----------------------------------------------------------------------------
(* C21: every successful scan returns a token sequence with exactly one Eof *)
(* token, and that token is the last one: for every source text, the empty  *)
(* one and one that ends inside a line or block comment included.           *)

EofTokens(tokens) == {i \in DOMAIN tokens : tokens[i].kind = "Eof"}

C21_OneEofTokenLast ==
    (pc = "scanned" /\ scanned.st = "Ok") =>
        EofTokens(scanned.tokens) = {Len(scanned.tokens)}

\* the text is `/*` and the rest of the input: the comment never closes
OpenBlockComment(s) ==
    /\ Len(s) >= 3
    /\ s[1] = "/" /\ s[2] = "*"
    /\ \A i \in 3..(Len(s) - 1) : ~(s[i] = "*" /\ s[i + 1] = "/")

C21_Witness ==
    /\ pc = "scanned"
    /\ scanned.st = "Ok"
    /\ OpenBlockComment(source)
    /\ scanned.tokens = <<Tok("Eof")>>

----------------------------------------------------------------------------
(* C22: inside a `{ }` block any number of Newline tokens before the first  *)
(* statement, between two statements and before the closing `}` is         *)
(* accepted and yields the statement list of the block without those blank  *)
(* lines.                                                                   *)

IsBlockInput(ts) ==
    /\ Len(ts) >= 3
    /\ ts[1].kind = "LeftBrace"
    /\ ts[Len(ts) - 1].kind = "RightBrace"

\* a Newline right after `{` or after another Newline only makes a blank line
BlankLine(ts, i) ==
    ts[i].kind = "Newline" /\ i > 1 /\ ts[i - 1].kind \in {"LeftBrace", "Newline"}

RECURSIVE WithoutBlankLines(_, _)
WithoutBlankLines(ts, i) ==
    IF i > Len(ts) THEN <<>>
    ELSE (IF BlankLine(ts, i) THEN <<>> ELSE <<ts[i]>>) \o WithoutBlankLines(ts, i + 1)

C22_BlockAcceptsBlankLines ==
    (pc = "parsed" /\ IsBlockInput(scanned.tokens)) =>
        /\ parsed.st = "Ok"
        /\ parsed = parse(WithoutBlankLines(scanned.tokens, 1))

\* the part that holds: blank lines before the first statement only
OnlyLeadingBlankLines(ts) ==
    \A i \in 2..Len(ts) :
        BlankLine(ts, i) => \A j \in 2..i : ts[j].kind = "Newline"

C22_BlockAcceptsLeadingBlankLines ==
    (pc = "parsed" /\ IsBlockInput(scanned.tokens)
        /\ OnlyLeadingBlankLines(scanned.tokens)) =>
            /\ parsed.st = "Ok"
            /\ parsed = parse(WithoutBlankLines(scanned.tokens, 1))

----------------------------------------------------------------------------
(* C23: assignment is right-associative and needs a bare variable on its    *)
(* left: `a = b = e` parses to Assign(a, Assign(b, e)); when the left side  *)
(* of `=` is another expression shape (literal, grouping, unary, binary,    *)
(* logical) parse fails with the invalid-assignment-target error and        *)
(* returns no statements.  Stated for right sides that are expressions.     *)

\* where the first `=` of a token sequence is, 0 when it has none
FirstEqual(ts) ==
    IF \E i \in DOMAIN ts : ts[i].kind = "Equal"
    THEN CHOOSE i \in DOMAIN ts :
            ts[i].kind = "Equal" /\ \A j \in 1..(i - 1) : ts[j].kind # "Equal"
    ELSE 0

TargetOf(ts) == SubSeq(ts, 1, FirstEqual(ts) - 1)

ValueOf(ts) == SubSeq(ts, FirstEqual(ts) + 1, Len(ts) - 1)

\* a = b = e Eof, a and b identifiers and e an operand
IsAssignChain(ts) ==
    /\ Len(ts) = 6
    /\ ts[1].kind = "Identifier" /\ ts[2].kind = "Equal"
    /\ ts[3].kind = "Identifier" /\ ts[4].kind = "Equal"
    /\ Operand(ts[5])

InvalidTarget == Error("Invalid assignment target.", <<>>)

C23_AssignmentTargetsAndAssociativity ==
    pc = "parsed" =>
        LET ts == scanned.tokens
        IN /\ IsAssignChain(ts) =>
                parsed = OkStmts(<<Expression(Assign(ts[1], Assign(ts[3],
                                                   OperandExpr(ts[5]))))>>)
           /\ (FirstEqual(ts) > 0 /\ TargetOf(ts) \in InvalidTargets
                  /\ ValueOf(ts) \in AssignValues) =>
                parsed = ErrStmts(InvalidTarget)

\* `(x) = y = 1` was rejected
C23_Witness ==
    /\ pc = "parsed"
    /\ FirstEqual(scanned.tokens) = 4
    /\ scanned.tokens[1].kind = "LeftParen"
    /\ Len(ValueOf(scanned.tokens)) = 3
    /\ parsed = ErrStmts(InvalidTarget)

----------------------------------------------------------------------------
(* SpecToken: Token::eq on the pairs of three tokens, and                   *)
(* consume(Identifier("")) on a parser standing at the first of them.  Init *)
(* draws the tokens: the first two from one token of every kind and several *)
(* of each kind with a payload, the third from those with a payload.        *)

PayloadTokens ==
    {IdentifierTok(<<>>), X, Y, StringTok(<<>>), StringTok(<<"x">>),
     NumberTok(Num(0)), NumberTok(Num(1)), UnknownTok("#"), UnknownTok("x")}

TokenPool ==
    PayloadTokens
        \cup {Tok(k) : k \in TokenKinds \ {"Identifier", "String", "Number", "Unknown"}}

InitToken ==
    /\ pc = "tokens"
    /\ source = <<>>
    /\ scanned \in {OkTokens(<<a, b, c, Tok("Eof")>>) :
                       a \in TokenPool, b \in TokenPool, c \in PayloadTokens}
    /\ parsed = NotRun
    /\ env = EnvironmentNew
    /\ output = <<>>
    /\ trace = <<>>
    /\ result = NotRun
    /\ runs = 0

\* a == b for every two of the three tokens
CompareTokens ==
    /\ pc = "tokens"
    /\ trace' = <<[ev |-> "eq",
                   eq |-> [i \in 1..3 |-> [j \in 1..3 |->
                              TokenEq(scanned.tokens[i], scanned.tokens[j])]]]>>
    /\ pc' = "compared"
    /\ UNCHANGED <<source, scanned, parsed, env, output, result, runs>>

\* self.consume(Identifier("".to_string())), as variable() calls it
ConsumeIdentifier ==
    /\ pc = "tokens"
    /\ Bind(consume(ParserNew(scanned.tokens), "Identifier"), LAMBDA name :
            /\ trace' = <<[ev |-> "consume", val |-> name.val, cur |-> name.cur]>>
            /\ result' = [st |-> name.st, err |-> name.err])
    /\ pc' = "consumed"
    /\ UNCHANGED <<source, scanned, parsed, env, output, runs>>

NextToken == CompareTokens \/ ConsumeIdentifier

SpecToken == InitToken /\ [][NextToken]_vars

----------------------------------------------------------------------------
(* C24: token equality is an equivalence relation that relates two tokens   *)
(* exactly when they are of the same kind, whatever their payload: any two  *)
(* Identifier, String or Number tokens are equal and tokens of different    *)
(* kinds never are.  Hence consume(Identifier("")) accepts every identifier *)
(* and returns the token that was there, with its own name.                 *)

C24_TokenEqualityIsKindEquality ==
    /\ pc = "compared" =>
          LET eq == trace[1].eq
              ts == scanned.tokens
          IN /\ \A i \in 1..3 : eq[i][i]
             /\ \A i, j \in 1..3 : eq[i][j] <=> eq[j][i]
             /\ \A i, j, k \in 1..3 : (eq[i][j] /\ eq[j][k]) => eq[i][k]
             /\ \A i, j \in 1..3 : eq[i][j] <=> (ts[i].kind = ts[j].kind)
    /\ pc = "consumed" =>
          IF scanned.tokens[1].kind = "Identifier"
          THEN /\ result.st = "Ok"
               /\ trace[1].val = scanned.tokens[1]
               /\ trace[1].cur = 1
          ELSE result.st = "Err"

\* two identifiers with different names compared equal
C24_Witness ==
    /\ pc = "compared"
    /\ scanned.tokens[1] = X
    /\ scanned.tokens[2] = Y
    /\ trace[1].eq[1][2]
    /\ ~trace[1].eq[2][3]

----------------------------------------------------------------------------
(* C25: binary `/` with a Number dividend and a divisor equal to zero       *)
(* returns the division-by-zero error for every dividend and never a value; *)
(* with a non-zero Number divisor it returns the Number quotient (here: the *)
(* quotient cut to DivDigits fractional digits); with a non-Number operand  *)
(* on either side it returns an error.                                      *)

SlashEvents == {i \in DOMAIN trace : trace[i].ev = "op" /\ trace[i].op = "Slash"}

NumAbs(a) == [m |-> IF a.m < 0 THEN 0 - a.m ELSE a.m, e |-> a.e]

\* q is l / r cut towards zero at DivDigits fractional digits
IsQuotient(q, l, r) ==
    /\ q.e <= DivDigits
    /\ NumLess(NumAbs(NumSub(l, NumMul(q, r))),
               NumMul(NumAbs(r), [m |-> 1, e |-> DivDigits]))
    /\ ~NumLess(NumAbs(l), NumAbs(NumMul(q, r)))
    /\ q.m # 0 => (q.m < 0) = ((l.m < 0) # (r.m < 0))

C25_DivisionByZeroIsError ==
    Finished =>
        \A i \in SlashEvents :
            LET l == trace[i].left
                r == trace[i].right
            IN IF l.kind # "Number" \/ r.kind # "Number"
               THEN trace[i].st = "Err"
               ELSE IF r.n.m = 0
               THEN /\ trace[i].st = "Err"
                    /\ trace[i].err.msg = "Runtime Error: Division by zero."
               ELSE /\ trace[i].st = "Ok"
                    /\ trace[i].val.kind = "Number"
                    /\ IsQuotient(trace[i].val.n, l.n, r.n)

\* a negative dividend was divided by a zero that a subtraction produced
C25_Witness ==
    /\ Finished
    /\ \E i \in SlashEvents :
          /\ trace[i].left.kind = "Number" /\ trace[i].left.n.m < 0
          /\ trace[i].right.kind = "Number" /\ trace[i].right.n.m = 0
          /\ i > 1 /\ trace[i - 1].ev = "op" /\ trace[i - 1].op = "Minus"
          /\ trace[i].st = "Err"

----------------------------------------------------------------------------
(* C26: a For statement whose iterable evaluates to a value that is no      *)
(* Range returns the iterable-must-be-a-range error without executing its   *)
(* body and without creating a scope; when the body leaves the loop         *)
(* variable bound to a value that is no Number, the For statement returns   *)
(* the variable-must-be-a-number error and the body is not executed again.  *)

ForExits == {j \in DOMAIN trace : IsExit(j) /\ trace[j].type = "For"}

\* the events of the body of the For statement that returns at event j
BodyEvents(j) ==
    {k \in (EnterOf(j) + 1)..(j - 1) :
        /\ trace[k].ev \in {"enter", "exit"}
        /\ trace[k].path = Append(trace[j].path, 1)}

IterableMustBeRange == "Runtime Error: For loop iterable must be a range."

----------------------------------------------------------------------------
(* C27: scan is total: for every source text it returns either Ok(tokens)   *)
(* or Err(error); no text makes it panic, in particular no text of digit    *)
(* runs and `.` characters such as `1.5.5`.                                 *)

C27_ScanIsTotal ==
    pc = "scanned" => scanned.st \in {"Ok", "Err"}

\* every text without a second fraction group after a Number does return
DigitsAndDots(s) == \A i \in DOMAIN s : s[i] = "." \/ IsDigit(s[i])

C27_ScanReturnsOnDigitsAndDots ==
    (pc = "scanned" /\ DigitsAndDots(source) /\ scanned.st = "Panic") =>
        \E i, j \in DOMAIN source :
            /\ i + 1 < j /\ j < Len(source)
            /\ source[i] = "." /\ source[j] = "."
            /\ \A k \in (i + 1)..(j - 1) : IsDigit(source[k])
            /\ IsDigit(source[j + 1])

----------------------------------------------------------------------------
(* C28: equality is reflexive on every runtime value: for a value v of any  *)
(* variant (Number, String, Boolean, Null, Range) `v == v` evaluates to     *)
(* Boolean(true) and `v != v` to Boolean(false); and whenever `a == b`      *)
(* evaluates to Boolean(r), `a != b` evaluates to Boolean(not r).           *)

EqualityEvents ==
    {i \in DOMAIN trace :
        /\ trace[i].ev = "op" /\ trace[i].type = "Binary"
        /\ trace[i].op \in {"EqualEqual", "BangEqual"}}

\* what the other operator of the pair gives on the operands of event i
Opposite(i) ==
    Equality(State(<<>>, <<>>, <<>>, 0),
             Tok(IF trace[i].op = "EqualEqual" THEN "BangEqual" ELSE "EqualEqual"),
             trace[i].left, trace[i].right)

C28_EqualityIsReflexive ==
    \A i \in EqualityEvents :
        /\ trace[i].left = trace[i].right =>
              /\ trace[i].st = "Ok"
              /\ trace[i].val = VBoolean(trace[i].op = "EqualEqual")
        /\ (trace[i].st = "Ok" /\ trace[i].val.kind = "Boolean") =>
              /\ Opposite(i).st = "Ok"
              /\ Opposite(i).val = VBoolean(~trace[i].val.b)

\* the same with the first half kept to the four variants the match names
C28_EqualityIsReflexiveButOnRange ==
    \A i \in EqualityEvents :
        /\ (trace[i].left = trace[i].right /\ trace[i].left.kind # "Range") =>
              /\ trace[i].st = "Ok"
              /\ trace[i].val = VBoolean(trace[i].op = "EqualEqual")
        /\ (trace[i].st = "Ok" /\ trace[i].val.kind = "Boolean") =>
              /\ Opposite(i).st = "Ok"
              /\ Opposite(i).val = VBoolean(~trace[i].val.b)

----------------------------------------------------------------------------
(* C29: when a For statement iterates over Range(start, end) with           *)
(* start >= end, its body is executed at most once.                         *)

\* a For statement over a range of two integer literals that has no member
EmptyRangeFor(stmt) ==
    /\ stmt.type = "For"
    /\ stmt.iterable.type = "Binary" /\ stmt.iterable.op.kind = "Range"
    /\ IsIntLiteral(stmt.iterable.left) /\ IsIntLiteral(stmt.iterable.right)
    /\ stmt.iterable.left.token.n.m >= stmt.iterable.right.token.n.m

C29_EmptyRangeRunsBodyAtMostOnce ==
    Finished =>
        \A j \in ForExits :
            EmptyRangeFor(StmtAt(trace[j].path)) =>
                Len(BodyValues(EnterOf(j), j)) <= 1

\* the body is run twice, never more, and with the variable at start, start + 1
C29_EmptyRangeRunsBodyTwice ==
    Finished =>
        \A j \in ForExits :
            LET stmt == StmtAt(trace[j].path)
            IN (/\ EmptyRangeFor(stmt) /\ trace[j].st = "Ok"
                /\ ~Touches(stmt.body, TokenToString(Actual(stmt)))) =>
                   BodyValues(EnterOf(j), j)
                       = [n \in 1..2 |-> VNumber(Num(stmt.iterable.left.token.n.m + n - 1))]

----------------------------------------------------------------------------
(* C30: the bound name of a `for` statement is optional: a `for` written    *)
(* without a bound name whose range expression begins with a variable       *)
(* (tokens `for n .. m body`) parses to For(no name, Binary(n, .., m),      *)
(* body); a leading identifier is taken as the bound name only when a       *)
(* separate range expression follows it.                                    *)

\* ts from position i on is `n .. m [newline] log v newline Eof`
RangeThenLog(ts, i) ==
    /\ Len(ts) >= i + 6
    /\ Operand(ts[i]) /\ ts[i + 1].kind = "Range" /\ Operand(ts[i + 2])
    /\ ts[Len(ts) - 2].kind = "Identifier"
    /\ \E a \in 0..1 :
          SubSeq(ts, i + 3, Len(ts))
              = Newlines(a) \o <<Tok("Log"), ts[Len(ts) - 2], Tok("Newline"), Tok("Eof")>>

\* the For statement of such tokens, with the given bound name
ForOf(ts, i, name) ==
    For(name, Binary(OperandExpr(ts[i]), ts[i + 1], OperandExpr(ts[i + 2])),
        Log(Variable(ts[Len(ts) - 2])))

C30_ForBoundNameIsOptional ==
    (pc = "parsed" /\ scanned.tokens[1].kind = "For") =>
        LET ts == scanned.tokens
        IN /\ RangeThenLog(ts, 2) => parsed = OkStmts(<<ForOf(ts, 2, <<>>)>>)
           /\ (ts[2].kind = "Identifier" /\ RangeThenLog(ts, 3)) =>
                 parsed = OkStmts(<<ForOf(ts, 3, <<ts[2]>>)>>)

\* the same where the range expression without a bound name begins with a
\* number; one that begins with a variable is rejected at `..`
C30_ForTakesLeadingIdentifier ==
    (pc = "parsed" /\ scanned.tokens[1].kind = "For") =>
        LET ts == scanned.tokens
        IN /\ (RangeThenLog(ts, 2) /\ ts[2].kind = "Number") =>
                 parsed = OkStmts(<<ForOf(ts, 2, <<>>)>>)
           /\ (RangeThenLog(ts, 2) /\ ts[2].kind = "Identifier") =>
                 parsed = ErrStmts(Error("Expected expression, but found", <<"Range">>))
           /\ (ts[2].kind = "Identifier" /\ RangeThenLog(ts, 3)) =>
                 parsed = OkStmts(<<ForOf(ts, 3, <<ts[2]>>)>>)

====
